---- MODULE Spec2Model ----
(***************************************************************************)
(* Model of the transfer-counselor query system: the session store         *)
(* (core/session.py), the keyword router (core/routing.py), the static     *)
(* fallback lookup (utils/fallback_responses.py), the retry wrapper        *)
(* (utils/error_handling.py) and the orchestrator's process_query          *)
(* (core/system.py).                                                       *)
(*                                                                         *)
(* Text values (queries, keywords, response texts) are sequences of        *)
(* one-character strings so that str.lower() and the substring test        *)
(* `kw in query` are computed the way the code computes them.  The long    *)
(* literal fallback texts are represented by their opening words.          *)
(***************************************************************************)
EXTENDS Integers, Sequences, FiniteSets, TLC

\* Python's None.
None == "None"

(***************************************************************************)
(* Text helpers: str.lower(), `needle in haystack`, any(...)               *)
(***************************************************************************)
LowerTable ==
    ("A" :> "a") @@ ("B" :> "b") @@ ("C" :> "c") @@ ("D" :> "d") @@ ("E" :> "e") @@ ("F"
    :> "f") @@ ("G" :> "g") @@ ("H" :> "h") @@ ("I" :> "i") @@ ("J" :> "j") @@ ("K" :>
    "k") @@ ("L" :> "l") @@ ("M" :> "m") @@ ("N" :> "n") @@ ("O" :> "o") @@ ("P" :> "p")
    @@ ("Q" :> "q") @@ ("R" :> "r") @@ ("S" :> "s") @@ ("T" :> "t") @@ ("U" :> "u") @@
    ("V" :> "v") @@ ("W" :> "w") @@ ("X" :> "x") @@ ("Y" :> "y") @@ ("Z" :> "z")

LowerChar(c) == IF c \in DOMAIN LowerTable THEN LowerTable[c] ELSE c

\* str.lower()
Lower(s) == [i \in 1..Len(s) |-> LowerChar(s[i])]

\* `needle in haystack` for str
Contains(haystack, needle) ==
    \E i \in 0..(Len(haystack) - Len(needle)) :
        \A j \in 1..Len(needle) : haystack[i + j] = needle[j]

\* any(word in text for word in words)
AnyIn(words, text) == \E i \in 1..Len(words) : Contains(text, words[i])

(***************************************************************************)
(* core/routing.py: the keyword table, in dict insertion order             *)
(***************************************************************************)
financial_aid_keywords ==
    << <<"c","o","s","t">>, <<"m","o","n","e","y">>, <<"f","a","f","s","a">>,
    <<"f","i","n","a","n","c","i","a","l">>, <<"s","c","h","o","l","a","r","s","h","i","p">>,
    <<"a","f","f","o","r","d">>, <<"t","u","i","t","i","o","n">>, <<"g","r","a","n","t">>,
    <<"e","x","p","e","n","s","i","v","e">>, <<"b","u","d","g","e","t">>,
    <<"p","a","y","m","e","n","t">>, <<"a","i","d">>, <<"f","u","n","d","i","n","g">>,
    <<"c","a","l"," ","g","r","a","n","t">>, <<"p","e","l","l"," ","g","r","a","n","t">> >>
course_difficulty_keywords ==
    << <<"d","i","f","f","i","c","u","l","t">>, <<"s","t","u","d","y">>,
    <<"a","c","a","d","e","m","i","c">>, <<"c","o","u","r","s","e">>,
    <<"s","t","r","u","g","g","l","i","n","g">>, <<"c","a","l","c","u","l","u","s">>,
    <<"c","h","e","m","i","s","t","r","y">>, <<"p","h","y","s","i","c","s">>,
    <<"r","o","a","d","m","a","p">>, <<"t","r","a","n","s","f","e","r">>,
    <<"p","l","a","n">>, <<"s","c","h","e","d","u","l","e">>,
    <<"s","e","m","e","s","t","e","r">>,
    <<"p","r","e","r","e","q","u","i","s","i","t","e","s">>,
    <<"s","e","q","u","e","n","c","e">>, <<"m","a","t","h">>,
    <<"s","c","i","e","n","c","e">>, <<"e","n","g","l","i","s","h">>,
    <<"r","e","q","u","i","r","e","m","e","n","t","s">>, <<"u","n","i","t","s">>,
    <<"c","l","a","s","s","e","s">>, <<"c","u","r","r","i","c","u","l","u","m">>,
    <<"i","g","e","t","c">>, <<"b","r","e","a","d","t","h">>, <<"g","e">>,
    <<"g","e","n","e","r","a","l"," ","e","d","u","c","a","t","i","o","n">>,
    <<"l","o","w","e","r"," ","d","i","v","i","s","i","o","n">>,
    <<"u","p","p","e","r"," ","d","i","v","i","s","i","o","n">>,
    <<"p","l","a","n","n","i","n","g">>, <<"p","a","t","h","w","a","y">>,
    <<"p","r","e","p","a","r","a","t","i","o","n">>, <<"r","e","c","o","m","m","e","n","d">>,
    <<"s","u","g","g","e","s","t","i","o","n">> >>
career_counselor_keywords ==
    << <<"m","a","j","o","r">>, <<"c","a","r","e","e","r">>, <<"j","o","b">>,
    <<"b","u","s","i","n","e","s","s">>, <<"p","s","y","c","h","o","l","o","g","y">>,
    <<"e","n","g","i","n","e","e","r","i","n","g">>,
    <<"c","o","m","p","u","t","e","r"," ","s","c","i","e","n","c","e">>,
    <<"p","r","o","s","p","e","c","t","s">>, <<"e","m","p","l","o","y","m","e","n","t">>,
    <<"p","r","o","f","e","s","s","i","o","n">>, <<"o","c","c","u","p","a","t","i","o","n">>,
    <<"w","o","r","k">>, <<"s","a","l","a","r","y">>,
    <<"i","n","t","e","r","n","s","h","i","p">>, <<"n","e","t","w","o","r","k","i","n","g">> >>
agent_keywords ==
    << [agent_id |-> "financial_aid",     keywords |-> financial_aid_keywords],
       [agent_id |-> "course_difficulty", keywords |-> course_difficulty_keywords],
       [agent_id |-> "career_counselor",  keywords |-> career_counselor_keywords] >>

\* score = sum(1 for keyword in keywords if keyword in query_lower)
Score(keywords, query_lower) ==
    Cardinality({i \in 1..Len(keywords) : Contains(query_lower, keywords[i])})

\* route_query that answers with the first table entry when nothing scored
route_query_no_default(query) ==
    LET query_lower == Lower(query)
        score == [i \in 1..Len(agent_keywords) |->
                    Score(agent_keywords[i].keywords, query_lower)]
        agent_scores == {i \in 1..Len(agent_keywords) : score[i] > 0}
    IN IF agent_scores = {} THEN agent_keywords[1].agent_id
       ELSE LET best == CHOOSE i \in agent_scores :
                          /\ \A j \in agent_scores : score[j] <= score[i]
                          /\ \A j \in agent_scores : j < i => score[j] < score[i]
            IN agent_keywords[best].agent_id

\* route_query that takes the last table entry attaining the maximum
route_query_last_max(query) ==
    LET query_lower == Lower(query)
        score == [i \in 1..Len(agent_keywords) |->
                    Score(agent_keywords[i].keywords, query_lower)]
        agent_scores == {i \in 1..Len(agent_keywords) : score[i] > 0}
    IN IF agent_scores = {} THEN "coordinator"
       ELSE LET best == CHOOSE i \in agent_scores :
                          /\ \A j \in agent_scores : score[j] <= score[i]
                          /\ \A j \in agent_scores : j > i => score[j] < score[i]
            IN agent_keywords[best].agent_id

\* max(agent_scores, key=agent_scores.get) over the agents with score > 0:
\* the first table entry that attains the maximum; 'coordinator' if none.
route_query(query) ==
    LET query_lower == Lower(query)
        score == [i \in 1..Len(agent_keywords) |->
                    Score(agent_keywords[i].keywords, query_lower)]
        agent_scores == {i \in 1..Len(agent_keywords) : score[i] > 0}
    IN IF agent_scores = {} THEN "coordinator"
       ELSE LET best == CHOOSE i \in agent_scores :
                          /\ \A j \in agent_scores : score[j] <= score[i]
                          /\ \A j \in agent_scores : j < i => score[j] < score[i]
            IN agent_keywords[best].agent_id

\* no keyword has been added at run time
NoCustom == [i \in 1..Len(agent_keywords) |-> <<>>]

\* self.agent_keywords once add_custom_keywords has extended its lists:
\* list.extend puts the added keywords after the built-in ones
Table(custom) ==
    [i \in 1..Len(agent_keywords) |->
        [agent_id |-> agent_keywords[i].agent_id,
         keywords |-> agent_keywords[i].keywords \o custom[i]]]

\* route_query over the table as it is now
route_query_table(table, query) ==
    LET query_lower == Lower(query)
        score == [i \in 1..Len(table) |-> Score(table[i].keywords, query_lower)]
        agent_scores == {i \in 1..Len(table) : score[i] > 0}
    IN IF agent_scores = {} THEN "coordinator"
       ELSE LET best == CHOOSE i \in agent_scores :
                          /\ \A j \in agent_scores : score[j] <= score[i]
                          /\ \A j \in agent_scores : j < i => score[j] < score[i]
            IN table[best].agent_id

\* [kw for kw in keywords if kw in text]
Matched(keywords, text) == SelectSeq(keywords, LAMBDA kw : Contains(text, kw))

\* get_routing_explanation that matches the keywords against the query as typed
get_routing_explanation_raw(table, query) ==
    [selected_agent |-> route_query_table(table, query),
     agent_scores |-> [i \in 1..Len(table) |->
                         [agent_id |-> table[i].agent_id,
                          score |-> Len(Matched(table[i].keywords, query)),
                          matched_keywords |-> Matched(table[i].keywords, query)]],
     reasoning |-> <<"Selected ", route_query_table(table, query),
                     " based on keyword matching">>]

\* get_routing_explanation: the dict returned; agent_scores is in table order
get_routing_explanation(table, query) ==
    LET query_lower == Lower(query)
        selected_agent == route_query_table(table, query)
    IN [selected_agent |-> selected_agent,
        agent_scores |-> [i \in 1..Len(table) |->
                            [agent_id |-> table[i].agent_id,
                             score |-> Len(Matched(table[i].keywords, query_lower)),
                             matched_keywords |-> Matched(table[i].keywords, query_lower)]],
        reasoning |-> <<"Selected ", selected_agent, " based on keyword matching">>]

\* add_custom_keywords that says nothing when the agent id is not in the table
add_custom_keywords_silent(custom, agent_id, keywords) ==
    IF \E i \in 1..Len(agent_keywords) : agent_keywords[i].agent_id = agent_id
    THEN LET i == CHOOSE k \in 1..Len(agent_keywords) :
                     agent_keywords[k].agent_id = agent_id
         IN [custom |-> [custom EXCEPT ![i] = @ \o keywords], warned |-> FALSE]
    ELSE [custom |-> custom, warned |-> FALSE]

\* add_custom_keywords: the keywords added so far and whether
\* logger.warning("Unknown agent_id: ...") was called
add_custom_keywords(custom, agent_id, keywords) ==
    IF \E i \in 1..Len(agent_keywords) : agent_keywords[i].agent_id = agent_id
    THEN LET i == CHOOSE k \in 1..Len(agent_keywords) :
                     agent_keywords[k].agent_id = agent_id
         IN [custom |-> [custom EXCEPT ![i] = @ \o keywords], warned |-> FALSE]
    ELSE [custom |-> custom, warned |-> TRUE]

(***************************************************************************)
(* utils/fallback_responses.py                                             *)
(***************************************************************************)
fa_cost_words ==
    << <<"c","o","s","t">>, <<"e","x","p","e","n","s","i","v","e">>,
    <<"a","f","f","o","r","d">>, <<"m","o","n","e","y">>, <<"t","u","i","t","i","o","n">> >>
fa_fafsa_words ==
    << <<"f","a","f","s","a">>, <<"f","i","n","a","n","c","i","a","l"," ","a","i","d">>,
    <<"s","c","h","o","l","a","r","s","h","i","p">> >>
cc_business_words ==
    << <<"b","u","s","i","n","e","s","s">> >>
cc_major_words ==
    << <<"m","a","j","o","r">>, <<"c","a","r","e","e","r">>, <<"j","o","b">> >>
aa_difficult_words ==
    << <<"d","i","f","f","i","c","u","l","t">>, <<"h","a","r","d">>,
    <<"s","t","r","u","g","g","l","i","n","g">>,
    <<"o","r","g","a","n","i","c"," ","c","h","e","m","i","s","t","r","y">>,
    <<"c","a","l","c","u","l","u","s">>, <<"p","h","y","s","i","c","s">> >>
aa_roadmap_words ==
    << <<"r","o","a","d","m","a","p">>, <<"p","l","a","n">>, <<"c","o","u","r","s","e">>,
    <<"t","r","a","n","s","f","e","r">>, <<"s","c","h","e","d","u","l","e">> >>
co_financial_words ==
    << <<"c","o","s","t">>, <<"m","o","n","e","y">>, <<"f","a","f","s","a">>,
    <<"f","i","n","a","n","c","i","a","l">>, <<"s","c","h","o","l","a","r","s","h","i","p">>,
    <<"a","f","f","o","r","d">> >>
co_career_words ==
    << <<"m","a","j","o","r">>, <<"c","a","r","e","e","r">>, <<"j","o","b">>,
    <<"b","u","s","i","n","e","s","s">>, <<"p","s","y","c","h","o","l","o","g","y">> >>
co_academic_words ==
    << <<"d","i","f","f","i","c","u","l","t">>, <<"s","t","u","d","y">>,
    <<"a","c","a","d","e","m","i","c">>, <<"c","o","u","r","s","e">>,
    <<"s","t","r","u","g","g","l","i","n","g">> >>
\* "For UC/CSU costs..."
TxtFaCost ==
    <<"F","o","r"," ","U","C","/","C","S","U"," ","c","o","s","t","s">>
\* "Financial Aid for..."
TxtFaFafsa ==
    <<"F","i","n","a","n","c","i","a","l"," ","A","i","d"," ","f","o","r">>
\* "I can help with financial aid..."
TxtFaDefault ==
    <<"I"," ","c","a","n"," ","h","e","l","p"," ","w","i","t","h"," ","f","i","n","a","n","c","i","a","l"," ","a","i","d">>
\* "UC vs CSU for Business..."
TxtCcBusiness ==
    <<"U","C"," ","v","s"," ","C","S","U"," ","f","o","r"," ","B","u","s","i","n","e","s","s">>
\* "Choosing Your Transfer Major:..."
TxtCcMajor ==
    <<"C","h","o","o","s","i","n","g"," ","Y","o","u","r"," ","T","r","a","n","s","f","e","r"," ","M","a","j","o","r",":">>
\* "I can help with career..."
TxtCcDefault ==
    <<"I"," ","c","a","n"," ","h","e","l","p"," ","w","i","t","h"," ","c","a","r","e","e","r">>
\* "Managing Difficult Courses:..."
TxtAaDifficult ==
    <<"M","a","n","a","g","i","n","g"," ","D","i","f","f","i","c","u","l","t"," ","C","o","u","r","s","e","s",":">>
\* "Creating Your Transfer..."
TxtAaRoadmap ==
    <<"C","r","e","a","t","i","n","g"," ","Y","o","u","r"," ","T","r","a","n","s","f","e","r">>
\* "I can help with academic..."
TxtAaDefault ==
    <<"I"," ","c","a","n"," ","h","e","l","p"," ","w","i","t","h"," ","a","c","a","d","e","m","i","c">>
\* "I can help you with financial..."
TxtCoFinancial ==
    <<"I"," ","c","a","n"," ","h","e","l","p"," ","y","o","u"," ","w","i","t","h"," ","f","i","n","a","n","c","i","a","l">>
\* "I can help you with career..."
TxtCoCareer ==
    <<"I"," ","c","a","n"," ","h","e","l","p"," ","y","o","u"," ","w","i","t","h"," ","c","a","r","e","e","r">>
\* "I can help you with academic..."
TxtCoAcademic ==
    <<"I"," ","c","a","n"," ","h","e","l","p"," ","y","o","u"," ","w","i","t","h"," ","a","c","a","d","e","m","i","c">>
\* "Welcome to your UC/CSU..."
TxtCoWelcome ==
    <<"W","e","l","c","o","m","e"," ","t","o"," ","y","o","u","r"," ","U","C","/","C","S","U">>
\* "I'm here to help..."
TxtDefault ==
    <<"I","'","m"," ","h","e","r","e"," ","t","o"," ","h","e","l","p">>
_get_financial_aid_fallback(user_lower) ==
    IF AnyIn(fa_cost_words, user_lower) THEN TxtFaCost
    ELSE IF AnyIn(fa_fafsa_words, user_lower) THEN TxtFaFafsa
    ELSE TxtFaDefault

_get_career_counselor_fallback(user_lower) ==
    IF AnyIn(cc_business_words, user_lower) THEN TxtCcBusiness
    ELSE IF AnyIn(cc_major_words, user_lower) THEN TxtCcMajor
    ELSE TxtCcDefault

_get_academic_advisor_fallback(user_lower) ==
    IF AnyIn(aa_difficult_words, user_lower) THEN TxtAaDifficult
    ELSE IF AnyIn(aa_roadmap_words, user_lower) THEN TxtAaRoadmap
    ELSE TxtAaDefault

_get_coordinator_fallback(user_lower) ==
    IF AnyIn(co_financial_words, user_lower) THEN TxtCoFinancial
    ELSE IF AnyIn(co_career_words, user_lower) THEN TxtCoCareer
    ELSE IF AnyIn(co_academic_words, user_lower) THEN TxtCoAcademic
    ELSE TxtCoWelcome

get_fallback_response(user_message, agent_id) ==
    LET user_lower == Lower(user_message)
    IN IF agent_id = "financial_aid" THEN _get_financial_aid_fallback(user_lower)
       ELSE IF agent_id = "career_counselor" THEN _get_career_counselor_fallback(user_lower)
       ELSE IF agent_id = "course_difficulty" THEN _get_academic_advisor_fallback(user_lower)
       ELSE IF agent_id = "coordinator" THEN _get_coordinator_fallback(user_lower)
       ELSE TxtDefault

(***************************************************************************)
(* Bounds of the model                                                     *)
(***************************************************************************)
\* number of session ids create_session can hand out
MaxSessions == 1
\* largest clock reading
MaxClock == 1
\* most messages the store holds in the store specification
MaxLen == 2
\* largest small limit given to get_conversation_history
MaxLimit == 1

\* Session ids: uuid4 strings, modelled as 1, 2, ...; create_session hands
\* them out in order and never reuses one.  The id MaxSessions + 1 is never
\* handed out: it is an id no session ever has.
SessionIds == 1..(MaxSessions + 1)
\* session_id = None in process_query
NoSession == 0
\* object references: SessionContext objects live in the heap, because two
\* threads can hold two different objects for the same session id.
NoRef == 0

VARIABLES
    sessions,       \* SessionManager.sessions: session id -> object reference
    heap,           \* the SessionContext objects: reference -> fields
    db,             \* the sqlite table sessions: session id -> row
    persistent,     \* SessionManager.persistent
    disk_ok,        \* the sqlite file can be written: conn.execute/commit of a
                    \* write do not raise
    failures,       \* history: "none" while no durable write has failed,
                    \* "current" once one failed in this process, "earlier"
                    \* when one failed in a process that has ended
    clock,          \* datetime.now()
    nextId,         \* the next id uuid4 yields
    api_key_ok,     \* os.getenv('OPENAI_API_KEY') is set and starts with 'sk-'
    breaker,        \* the circuit breaker registered as 'openai_api': its
                    \* configuration and its state
    custom_keywords, \* per entry of QueryRouter.agent_keywords, the keywords
                    \* add_custom_keywords has appended to it
    agent_manager,  \* self.agent_manager is not None
    threads,        \* the calls in progress in concurrent threads: where each
                    \* is and its local variables
    last,           \* the last call made and what it returned
    log             \* history: per session id, the messages appended to it since
                    \* create_session or update_session last set its history

(***************************************************************************)
(* core/session.py                                                         *)
(***************************************************************************)
\* datetime.isoformat() / datetime.fromisoformat(): the text form of a
\* datetime; json.dumps / json.loads: the text form of a list or dict.
isoformat(t) == [iso |-> t]
fromisoformat(x) == x.iso
json_dumps(v) == [json |-> v]
json_loads(x) == x.json

\* SessionContext(...) as create_session builds it
SessionContext(session_id, user_id, now) ==
    [session_id |-> session_id, user_id |-> user_id,
     conversation_history |-> <<>>, shared_context |-> <<>>,
     active_agents |-> <<>>, created_at |-> now, last_updated |-> now]

\* the SessionManager seen as one value
SM == [sessions |-> sessions, heap |-> heap, db |-> db, persistent |-> persistent,
       disk_ok |-> disk_ok, failures |-> failures]

\* a manager as __init__ leaves it
EmptySM(p) == [sessions |-> <<>>, heap |-> <<>>, db |-> <<>>, persistent |-> p,
               disk_ok |-> TRUE, failures |-> "none"]

\* a reference not in use: the smallest one
NewRef(S) == CHOOSE o \in 1..(Cardinality(DOMAIN S.heap) + 1) : o \notin DOMAIN S.heap

\* objects no longer reachable from the sessions dict or from a local
\* variable of a running call are dropped
Collect(S, refs) ==
    [S EXCEPT !.heap = [o \in {p \in DOMAIN S.heap :
                                 \/ p \in refs
                                 \/ \E sid \in DOMAIN S.sessions : S.sessions[sid] = p}
                         |-> S.heap[o]]]

\* the row _save_session writes
RowOf(session) ==
    [session_id |-> session.session_id,
     user_id |-> session.user_id,
     conversation_history |-> json_dumps(session.conversation_history),
     shared_context |-> json_dumps(session.shared_context),
     active_agents |-> json_dumps(session.active_agents),
     created_at |-> isoformat(session.created_at),
     last_updated |-> isoformat(session.last_updated)]

\* the SessionContext _load_session builds from a row
SessionOfRow(row) ==
    [session_id |-> row.session_id,
     user_id |-> row.user_id,
     conversation_history |-> json_loads(row.conversation_history),
     shared_context |-> json_loads(row.shared_context),
     active_agents |-> json_loads(row.active_agents),
     created_at |-> fromisoformat(row.created_at),
     last_updated |-> fromisoformat(row.last_updated)]

\* INSERT OR REPLACE INTO sessions ...; when the write raises, the handler
\* of lines 186-187 logs the error and nothing else changes
_save_session(S, session) ==
    IF S.disk_ok
    THEN [S EXCEPT !.db = [sid \in DOMAIN S.db \cup {session.session_id} |->
                        IF sid = session.session_id THEN RowOf(session) ELSE S.db[sid]]]
    ELSE [S EXCEPT !.failures = "current"]

\* _load_session that builds a new, empty SessionContext for the row's id
_load_session_fresh(S, session_id) ==
    IF session_id \in DOMAIN S.db
    THEN <<SessionContext(session_id, S.db[session_id].user_id,
                          fromisoformat(S.db[session_id].created_at))>>
    ELSE <<>>

\* SELECT * FROM sessions WHERE session_id = ?  (<<>> stands for None)
_load_session(S, session_id) ==
    IF session_id \in DOMAIN S.db THEN <<SessionOfRow(S.db[session_id])>> ELSE <<>>

\* self.sessions[session_id] = session, for a new object
Install(S, session_id, session) ==
    LET o == NewRef(S)
    IN [S EXCEPT !.heap = [p \in DOMAIN S.heap \cup {o} |->
                             IF p = o THEN session ELSE S.heap[p]],
                 !.sessions = [sid \in DOMAIN S.sessions \cup {session_id} |->
                             IF sid = session_id THEN o ELSE S.sessions[sid]]]

\* create_session without the call of _save_session
create_session_unsaved(S, user_id, session_id, now) ==
    LET session == SessionContext(session_id, user_id, now)
        S1 == Install(S, session_id, session)
    IN S1

create_session(S, user_id, session_id, now) ==
    LET session == SessionContext(session_id, user_id, now)
        S1 == Install(S, session_id, session)
    IN IF S1.persistent THEN _save_session(S1, session) ELSE S1

\* get_session that builds a session for an id it does not find
get_session_or_create(S, session_id) ==
    IF session_id \in DOMAIN S.sessions
    THEN [S |-> S, ref |-> S.sessions[session_id]]
    ELSE LET found == S.persistent /\ _load_session(S, session_id) # <<>>
             S1 == Install(S, session_id,
                           IF found THEN _load_session(S, session_id)[1]
                           ELSE SessionContext(session_id, None, 0))
         IN [S |-> S1, ref |-> S1.sessions[session_id]]

\* returns the manager and the reference found (NoRef for None)
get_session(S, session_id) ==
    IF session_id \in DOMAIN S.sessions
    THEN [S |-> S, ref |-> S.sessions[session_id]]
    ELSE IF S.persistent /\ _load_session(S, session_id) # <<>>
    THEN LET S1 == Install(S, session_id, _load_session(S, session_id)[1])
         IN [S |-> S1, ref |-> S1.sessions[session_id]]
    ELSE [S |-> S, ref |-> NoRef]

\* setattr(session, key, value) for every key the dataclass has
SetAttrs(session, kwargs) ==
    [f \in DOMAIN session |->
        IF \E i \in 1..Len(kwargs) : kwargs[i].key = f
        THEN kwargs[CHOOSE i \in 1..Len(kwargs) :
                       /\ kwargs[i].key = f
                       /\ \A j \in (i + 1)..Len(kwargs) : kwargs[j].key # f].value
        ELSE session[f]]

\* update_session that leaves last_updated as it was
update_session_unstamped(S, session_id, kwargs, now) ==
    LET g == get_session(S, session_id)
    IN IF g.ref = NoRef THEN g.S
       ELSE LET session == [SetAttrs(g.S.heap[g.ref], kwargs) EXCEPT
                               !.last_updated = g.S.heap[g.ref].last_updated]
                S1 == [g.S EXCEPT !.heap[g.ref] = session]
            IN IF S1.persistent THEN _save_session(S1, session) ELSE S1

update_session(S, session_id, kwargs, now) ==
    LET g == get_session(S, session_id)
    IN IF g.ref = NoRef THEN g.S
       ELSE LET session == [SetAttrs(g.S.heap[g.ref], kwargs) EXCEPT !.last_updated = now]
                S1 == [g.S EXCEPT !.heap[g.ref] = session]
            IN IF S1.persistent THEN _save_session(S1, session) ELSE S1

\* add_to_conversation_history with insert(0, message) for append(message)
add_to_conversation_history_front(S, session_id, message, now) ==
    LET g == get_session(S, session_id)
    IN IF g.ref = NoRef THEN g.S
       ELSE LET session == [g.S.heap[g.ref] EXCEPT
                                !.conversation_history = <<message>> \o @,
                                !.last_updated = now]
                S1 == [g.S EXCEPT !.heap[g.ref] = session]
            IN IF S1.persistent THEN _save_session(S1, session) ELSE S1

add_to_conversation_history(S, session_id, message, now) ==
    LET g == get_session(S, session_id)
    IN IF g.ref = NoRef THEN g.S
       ELSE LET session == [g.S.heap[g.ref] EXCEPT
                                !.conversation_history = Append(@, message),
                                !.last_updated = now]
                S1 == [g.S EXCEPT !.heap[g.ref] = session]
            IN IF S1.persistent THEN _save_session(S1, session) ELSE S1

\* history[-limit:]
LastSlice(history, limit) ==
    LET n == Len(history)
        start == IF -limit < 0
                 THEN (IF n - limit < 0 THEN 0 ELSE n - limit)
                 ELSE (IF -limit > n THEN n ELSE -limit)
    IN SubSeq(history, start + 1, n)

\* limit is <<>> for None and <<k>> for the integer k; `if limit:` holds for
\* an integer other than 0.  Returns the manager and the list returned.
get_conversation_history(S, session_id, limit) ==
    LET g == get_session(S, session_id)
    IN IF g.ref = NoRef THEN [S |-> g.S, ret |-> <<>>]
       ELSE LET history == g.S.heap[g.ref].conversation_history
            IN [S |-> g.S,
                ret |-> IF limit # <<>> /\ limit[1] # 0
                        THEN LastSlice(history, limit[1]) ELSE history]

\* `a < b` for two isoformat texts, as sqlite compares TEXT values: texts
\* that datetime.isoformat() produced for naive datetimes sort in the order
\* of the datetimes (a text without microseconds is a prefix of the texts
\* of the later instants of the same second)
IsoLess(a, b) == a.iso < b.iso

\* the session ids of the objects cleanup's first loop puts in to_remove
ToRemove(S, cutoff) ==
    {sid \in DOMAIN S.sessions : S.heap[S.sessions[sid]].last_updated < cutoff}

\* the rows DELETE FROM sessions WHERE last_updated < ? deletes
RowsToDelete(S, cutoff) ==
    {sid \in DOMAIN S.db : IsoLess(S.db[sid].last_updated, isoformat(cutoff))}

\* cleanup_old_sessions with `<=` for `<` in both comparisons
cleanup_old_sessions_inclusive(S, hours, now) ==
    LET cutoff == now - hours
        to_remove == {sid \in DOMAIN S.sessions :
                         S.heap[S.sessions[sid]].last_updated <= cutoff}
        S1 == [S EXCEPT !.sessions = [sid \in DOMAIN S.sessions \ to_remove |->
                                         S.sessions[sid]]]
        rows == {sid \in DOMAIN S.db : S.db[sid].last_updated.iso <= isoformat(cutoff).iso}
    IN IF ~S1.persistent THEN [S |-> S1, ret |-> Cardinality(to_remove)]
       ELSE IF S1.disk_ok
       THEN [S |-> [S1 EXCEPT !.db = [sid \in DOMAIN S.db \ rows |-> S.db[sid]]],
             ret |-> Cardinality(to_remove) + Cardinality(rows)]
       ELSE [S |-> [S1 EXCEPT !.failures = "current"], ret |-> Cardinality(to_remove)]

\* hours stands for timedelta(hours=hours) in clock units.  removed_count
\* adds one for every object deleted from self.sessions and then the
\* rowcount of the DELETE; when the DELETE raises, the handler of lines
\* 161-162 logs the error.  Returns the manager and removed_count.
cleanup_old_sessions(S, hours, now) ==
    LET cutoff == now - hours
        to_remove == ToRemove(S, cutoff)
        S1 == [S EXCEPT !.sessions = [sid \in DOMAIN S.sessions \ to_remove |->
                                         S.sessions[sid]]]
        rows == RowsToDelete(S1, cutoff)
    IN IF ~S1.persistent THEN [S |-> S1, ret |-> Cardinality(to_remove)]
       ELSE IF S1.disk_ok
       THEN [S |-> [S1 EXCEPT !.db = [sid \in DOMAIN S.db \ rows |-> S.db[sid]]],
             ret |-> Cardinality(to_remove) + Cardinality(rows)]
       ELSE [S |-> [S1 EXCEPT !.failures = "current"], ret |-> Cardinality(to_remove)]

(***************************************************************************)
(* core/system.py: _build_context_aware_query                              *)
(***************************************************************************)
\* str.title(): a letter is upper-cased when no letter precedes it and
\* lower-cased otherwise
Title(s) ==
    LET IsLetter(c) == c \in DOMAIN LowerTable \/ \E u \in DOMAIN LowerTable : LowerTable[u] = c
        UpperChar(c) == IF \E u \in DOMAIN LowerTable : LowerTable[u] = c
                        THEN CHOOSE u \in DOMAIN LowerTable : LowerTable[u] = c
                        ELSE c
    IN [i \in 1..Len(s) |->
          IF i = 1 \/ ~IsLetter(s[i - 1]) THEN UpperChar(s[i]) ELSE LowerChar(s[i])]

\* conversation_history[-6:]
Last6(conversation_history) ==
    SubSeq(conversation_history,
           IF Len(conversation_history) > 6 THEN Len(conversation_history) - 5 ELSE 1,
           Len(conversation_history))

\* recent_context after the loop: one line per message of the last six
\* whose role is 'user' or 'assistant'.  The agent ids, which the model
\* keeps as strings, are spelled out for replace("_", " ").title().
recent_context(conversation_history) ==
    LET Get(msg, key, default) == IF key \in DOMAIN msg THEN msg[key] ELSE default
        Spelled(agent_id) ==
            CASE agent_id = "financial_aid" -> <<"f","i","n","a","n","c","i","a","l","_","a","i","d">>
              [] agent_id = "course_difficulty" -> <<"c","o","u","r","s","e","_","d","i","f","f","i","c","u","l","t","y">>
              [] agent_id = "career_counselor" -> <<"c","a","r","e","e","r","_","c","o","u","n","s","e","l","o","r">>
              [] agent_id = "coordinator" -> <<"c","o","o","r","d","i","n","a","t","o","r">>
              [] OTHER -> <<"c","o","u","n","s","e","l","o","r">>
        Replaced(s) == [i \in 1..Len(s) |-> IF s[i] = "_" THEN " " ELSE s[i]]
        First200(s) == SubSeq(s, 1, IF Len(s) > 200 THEN 200 ELSE Len(s))
        Line(msg) ==
            IF Get(msg, "role", None) = "user"
            THEN << <<"S","t","u","d","e","n","t"," ","p","r","e","v","i","o","u","s","l","y"," ","a","s","k","e","d",":"," ">> \o Get(msg, "content", <<>>) >>
            ELSE IF Get(msg, "role", None) = "assistant"
            THEN << Title(Replaced(Spelled(Get(msg, "agent_used", "counselor"))))
                    \o <<" ","r","e","s","p","o","n","d","e","d",":"," ">>
                    \o First200(Get(msg, "content", <<>>)) \o <<".",".",".">> >>
            ELSE <<>>
        RECURSIVE Lines(_)
        Lines(msgs) == IF msgs = <<>> THEN <<>> ELSE Line(Head(msgs)) \o Lines(Tail(msgs))
    IN Lines(Last6(conversation_history))

\* last_user_query after the loop: <<>> for None, else the content of the
\* last message of the last six whose role is 'user'
last_user_query(conversation_history) ==
    LET msgs == Last6(conversation_history)
        users == {i \in 1..Len(msgs) : "role" \in DOMAIN msgs[i] /\ msgs[i].role = "user"}
    IN IF users = {} THEN <<>>
       ELSE LET i == CHOOSE k \in users : \A j \in users : j <= k
            IN << IF "content" \in DOMAIN msgs[i] THEN msgs[i].content ELSE <<>> >>

\* the closing paragraph of the prompt for a follow-up about another school
different_school_instruction ==
    <<"I","M","P","O","R","T","A","N","T",":"," ","T","h","e"," ","s","t","u","d","e",
      "n","t"," ","i","s"," ","a","s","k","i","n","g"," ","f","o","r"," ","t","h","e",
      " ","s","a","m","e"," ","t","y","p","e"," ","o","f"," ","i","n","f","o","r","m",
      "a","t","i","o","n"," ","t","h","e","y"," ","p","r","e","v","i","o","u","s","l",
      "y"," ","r","e","q","u","e","s","t","e","d",","," ","b","u","t"," ","f","o","r",
      " ","a"," ","d","i","f","f","e","r","e","n","t"," ","s","c","h","o","o","l",".",
      " ","P","l","e","a","s","e"," ","p","r","o","v","i","d","e"," ","t","h","e"," ",
      "s","a","m","e"," ","c","o","m","p","r","e","h","e","n","s","i","v","e"," ","d",
      "e","t","a","i","l","s"," ","(","o","v","e","r","v","i","e","w",","," ","c","o",
      "s","t","s",","," ","f","i","n","a","n","c","i","a","l"," ","a","i","d",","," ",
      "e","t","c",".",")"," ","t","h","a","t"," ","w","e","r","e"," ","p","r","o","v",
      "i","d","e","d"," ","f","o","r"," ","t","h","e"," ","p","r","e","v","i","o","u",
      "s"," ","s","c","h","o","o","l",","," ","b","u","t"," ","n","o","w"," ","f","o",
      "r"," ","t","h","e"," ","s","c","h","o","o","l"," ","m","e","n","t","i","o","n",
      "e","d"," ","i","n"," ","t","h","e","i","r"," ","c","u","r","r","e","n","t"," ",
      "q","u","e","s","t","i","o","n",".">>

\* the closing paragraph of the prompt otherwise
generic_instruction ==
    <<"P","l","e","a","s","e"," ","p","r","o","v","i","d","e"," ","a"," ","r","e","s",
      "p","o","n","s","e"," ","t","h","a","t"," ","t","a","k","e","s"," ","i","n","t",
      "o"," ","a","c","c","o","u","n","t"," ","o","u","r"," ","p","r","e","v","i","o",
      "u","s"," ","c","o","n","v","e","r","s","a","t","i","o","n"," ","a","n","d"," ",
      "b","u","i","l","d","s"," ","u","p","o","n"," ","a","n","y"," ","r","e","l","e",
      "v","a","n","t"," ","t","o","p","i","c","s"," ","w","e","'","v","e"," ","d","i",
      "s","c","u","s","s","e","d",".">>

\* the f-string both templates share; the lines are joined by "\n".join
ContextPrompt(lines, current_query, instruction) ==
    LET RECURSIVE Join(_)
        Join(ls) == IF ls = <<>> THEN <<>>
                    ELSE IF Len(ls) = 1 THEN ls[1]
                    ELSE ls[1] \o <<"\n">> \o Join(Tail(ls))
    IN <<"P","r","e","v","i","o","u","s"," ","c","o","n","v","e","r","s","a","t","i","o","n"," ","c","o","n","t","e","x","t",":","\n">>
       \o Join(lines)
       \o <<"\n","\n","C","u","r","r","e","n","t"," ","q","u","e","s","t","i","o","n",":"," ">>
       \o current_query \o <<"\n","\n">> \o instruction

\* current_lower.startswith(("what about", "how about", "and")) and
\* any(school in current_lower for school in [...])
IsFollowUp(current_lower) ==
    LET StartsWith(s, p) == Len(p) <= Len(s) /\ SubSeq(s, 1, Len(p)) = p
    IN /\ \/ StartsWith(current_lower, <<"w","h","a","t"," ","a","b","o","u","t">>)
          \/ StartsWith(current_lower, <<"h","o","w"," ","a","b","o","u","t">>)
          \/ StartsWith(current_lower, <<"a","n","d">>)
       /\ AnyIn(<< <<"u","c","l","a">>, <<"u","s","c">>, <<"b","e","r","k","e","l","e","y">>, <<"u","c","s","d">>, <<"s","d","s","u">>,
                   <<"c","a","l"," ","p","o","l","y">>, <<"c","s","u","n">>, <<"s","j","s","u">> >>, current_lower)

\* _build_context_aware_query without the early return for short histories
_build_context_aware_query_eager(current_query, conversation_history) ==
    LET lines == recent_context(conversation_history)
        last_user == last_user_query(conversation_history)
    IN IF last_user # <<>> /\ last_user[1] # <<>> /\ IsFollowUp(Lower(current_query))
       THEN ContextPrompt(lines, current_query, different_school_instruction)
       ELSE IF lines # <<>>
       THEN ContextPrompt(lines, current_query, generic_instruction)
       ELSE current_query

\* _build_context_aware_query that emits the generic template whenever the
\* history has two entries or more
_build_context_aware_query_always(current_query, conversation_history) ==
    IF Len(conversation_history) < 2 THEN current_query
    ELSE LET lines == recent_context(conversation_history)
             last_user == last_user_query(conversation_history)
         IN IF last_user # <<>> /\ last_user[1] # <<>> /\ IsFollowUp(Lower(current_query))
            THEN ContextPrompt(lines, current_query, different_school_instruction)
            ELSE ContextPrompt(lines, current_query, generic_instruction)

\* _build_context_aware_query: the text given to the generator
_build_context_aware_query(current_query, conversation_history) ==
    IF Len(conversation_history) < 2 THEN current_query
    ELSE LET lines == recent_context(conversation_history)
             last_user == last_user_query(conversation_history)
         IN IF last_user # <<>> /\ last_user[1] # <<>> /\ IsFollowUp(Lower(current_query))
            THEN ContextPrompt(lines, current_query, different_school_instruction)
            ELSE IF lines # <<>>
            THEN ContextPrompt(lines, current_query, generic_instruction)
            ELSE current_query

(***************************************************************************)
(* agents/manager.py, utils/error_handling.py, core/system.py              *)
(***************************************************************************)
\* RetryConfig(max_attempts=2, ...) on process_query
max_attempts == 2

\* One outcome of runner.run_sync: it raises, or it returns a response whose
\* final_output is a text (possibly the empty one).
RunRaises == [kind |-> "raise", final_output |-> <<>>]
RunReturns(text) == [kind |-> "return", final_output |-> text]

\* process_with_agent without the test `and response.final_output`
process_with_agent_unchecked(agent_id, run) ==
    IF run.kind = "return"
    THEN [raised |-> FALSE, value |-> run.final_output]
    ELSE [raised |-> TRUE, value |-> <<>>]

\* AgentManager.process_with_agent: the text returned, or raised = TRUE.
\* self.agents holds the four specialists.
process_with_agent(agent_id, run) ==
    IF agent_id \notin {"financial_aid", "career_counselor", "course_difficulty", "coordinator"}
    THEN [raised |-> TRUE, value |-> <<>>]
    ELSE IF run.kind = "return" /\ run.final_output # <<>>
    THEN [raised |-> FALSE, value |-> run.final_output]
    ELSE [raised |-> TRUE, value |-> <<>>]

_generate_fallback_response(user_message, agent_id) ==
    get_fallback_response(user_message, agent_id)

query_message(student_query, now) ==
    [role |-> "user", content |-> student_query,
     timestamp |-> isoformat(now), query_type |-> "student_question"]

\* the assistant message, recorded under the coordinator whatever the route
response_message_unrouted(response_content, agent_to_use, now) ==
    [role |-> "assistant", content |-> response_content,
     timestamp |-> isoformat(now), agent_used |-> "coordinator",
     query_type |-> "agent_response"]

response_message(response_content, agent_to_use, now) ==
    [role |-> "assistant", content |-> response_content,
     timestamp |-> isoformat(now), agent_used |-> agent_to_use,
     query_type |-> "agent_response"]

\* the dict process_query returns on its normal path
ResultDict(response_content, agent_to_use, session_id, conversation_history) ==
    [response |-> response_content,
     agent_used |-> agent_to_use,
     session_id |-> session_id,
     status |-> "success",
     metadata |-> [conversation_turn |-> (Len(conversation_history) \div 2) + 1,
                   has_context |-> Len(conversation_history) > 0,
                   context_messages |-> Len(conversation_history)]]

\* The queries the specifications below give process_query, with the route
\* and the fallback text the code computes for each, computed once.
\* "aid"
QAid == <<"a","i","d">>
\* "My job"
QJob == <<"M","y"," ","j","o","b">>
\* ""
QEmpty == <<>>
AllQueries == {QEmpty, QAid, QJob}
Routed == [q \in AllQueries |-> route_query(q)]
FallbackFor == [q \in AllQueries |-> _generate_fallback_response(q, Routed[q])]

\* process_query that routes and falls back on the context-aware query
process_query_body_ctx(S, student_query, session_id, user_id, runs, calls, new_id, now) ==
    LET sid == IF session_id = NoSession THEN new_id ELSE session_id
        S0 == IF session_id = NoSession THEN create_session(S, user_id, new_id, now) ELSE S
        h == get_conversation_history(S0, sid, <<10>>)
        conversation_history == h.ret
        S1 == add_to_conversation_history(h.S, sid, query_message(student_query, now), now)
        context_aware_query == _build_context_aware_query(student_query, conversation_history)
        agent_to_use == route_query(context_aware_query)
        attempted == api_key_ok /\ agent_manager
        r == IF attempted THEN process_with_agent(agent_to_use, runs[calls + 1])
             ELSE [raised |-> TRUE, value |-> <<>>]
        answered == attempted /\ ~r.raised
        response_content == IF answered THEN r.value
                            ELSE _generate_fallback_response(context_aware_query, agent_to_use)
        S2 == add_to_conversation_history(S1, sid,
                  response_message(response_content, agent_to_use, now), now)
    IN [S |-> S2, raised |-> FALSE,
        result |-> ResultDict(response_content, agent_to_use, sid, conversation_history),
        calls |-> IF attempted THEN calls + 1 ELSE calls,
        answered |-> answered,
        prompt |-> IF attempted THEN <<context_aware_query>> ELSE <<>>]

\* The body of process_query.  runs is the sequence of outcomes the
\* successive run_sync invocations of this call would have, calls the
\* number of invocations made so far, new_id the id uuid4 yields; prompt is
\* the text given to the generator, <<>> when it was not called.
\* Nothing in the outer try block raises for a str query (the tracer only
\* logs, the router and the fallback lookup are total, the session store
\* swallows its own errors), so the handler of lines 189-223, the only
\* place that sets status 'fallback', is never entered.
process_query_body(S, student_query, session_id, user_id, runs, calls, new_id, now) ==
    LET sid == IF session_id = NoSession THEN new_id ELSE session_id
        S0 == IF session_id = NoSession THEN create_session(S, user_id, new_id, now) ELSE S
        h == get_conversation_history(S0, sid, <<10>>)
        conversation_history == h.ret
        S1 == add_to_conversation_history(h.S, sid, query_message(student_query, now), now)
        agent_to_use == Routed[student_query]
        attempted == api_key_ok /\ agent_manager
        context_aware_query == _build_context_aware_query(student_query, conversation_history)
        r == IF attempted THEN process_with_agent(agent_to_use, runs[calls + 1])
             ELSE [raised |-> TRUE, value |-> <<>>]
        answered == attempted /\ ~r.raised
        response_content == IF answered THEN r.value
                            ELSE FallbackFor[student_query]
        S2 == add_to_conversation_history(S1, sid,
                  response_message(response_content, agent_to_use, now), now)
    IN [S |-> S2, raised |-> FALSE,
        result |-> ResultDict(response_content, agent_to_use, sid, conversation_history),
        calls |-> IF attempted THEN calls + 1 ELSE calls,
        answered |-> answered,
        prompt |-> IF attempted THEN <<context_aware_query>> ELSE <<>>]

\* with_retry(RetryConfig(max_attempts=2)): the wrapper calls the body again
\* only when the body raised (handle_error answers RETRY for the errors a
\* generator raises), and re-raises after the last attempt.
RECURSIVE with_retry(_, _, _, _, _, _, _, _, _)
with_retry(S, student_query, session_id, user_id, runs, calls, new_id, now, attempt) ==
    LET b == process_query_body(S, student_query, session_id, user_id, runs, calls, new_id, now)
    IN IF ~b.raised \/ attempt >= max_attempts - 1 THEN b
       ELSE with_retry(b.S, student_query, session_id, user_id, runs, b.calls,
                       new_id, now, attempt + 1)

process_query(S, student_query, session_id, user_id, runs, new_id, now) ==
    with_retry(S, student_query, session_id, user_id, runs, 0, new_id, now, 0)

(***************************************************************************)
(* The calls a single caller makes, one after another                      *)
(***************************************************************************)
(***************************************************************************)
(* utils/error_handling.py: CircuitBreaker                                 *)
(***************************************************************************)
\* CircuitBreaker.__init__ with a CircuitBreakerConfig: a closed breaker
\* that has counted nothing.  last_failure_time is <<>> for None, else <<t>>.
CircuitBreaker(failure_threshold, recovery_timeout, success_threshold) ==
    [failure_threshold |-> failure_threshold,
     recovery_timeout |-> recovery_timeout,
     success_threshold |-> success_threshold,
     state |-> "closed",
     failure_count |-> 0,
     success_count |-> 0,
     last_failure_time |-> <<>>]

\* the breaker _setup_error_handling registers for the external generator;
\* success_threshold keeps the default of CircuitBreakerConfig
openai_api == CircuitBreaker(3, 30, 3)

\* _should_attempt_reset that waits until more than recovery_timeout has passed
_should_attempt_reset_strict(b, now) ==
    IF b.last_failure_time = <<>> THEN TRUE
    ELSE now - b.last_failure_time[1] > b.recovery_timeout

\* _should_attempt_reset: enough time has passed since the last failure
_should_attempt_reset(b, now) ==
    IF b.last_failure_time = <<>> THEN TRUE
    ELSE now - b.last_failure_time[1] >= b.recovery_timeout

\* _on_success that closes only above success_threshold
_on_success_late(b) ==
    IF b.state = "half_open"
    THEN IF b.success_count + 1 > b.success_threshold
         THEN [b EXCEPT !.success_count = @ + 1, !.state = "closed", !.failure_count = 0]
         ELSE [b EXCEPT !.success_count = @ + 1]
    ELSE IF b.state = "closed" THEN [b EXCEPT !.failure_count = 0]
    ELSE b

\* _on_success: a half-open breaker counts the success and closes at
\* success_threshold; a closed one forgets its failures
_on_success(b) ==
    IF b.state = "half_open"
    THEN IF b.success_count + 1 >= b.success_threshold
         THEN [b EXCEPT !.success_count = @ + 1, !.state = "closed", !.failure_count = 0]
         ELSE [b EXCEPT !.success_count = @ + 1]
    ELSE IF b.state = "closed" THEN [b EXCEPT !.failure_count = 0]
    ELSE b

\* _on_failure that opens only above failure_threshold
_on_failure_late(b, now) ==
    IF b.failure_count + 1 > b.failure_threshold
    THEN [b EXCEPT !.failure_count = @ + 1, !.last_failure_time = <<now>>, !.state = "open"]
    ELSE [b EXCEPT !.failure_count = @ + 1, !.last_failure_time = <<now>>]

\* _on_failure that does not note the time of the failure
_on_failure_unstamped(b, now) ==
    IF b.failure_count + 1 >= b.failure_threshold
    THEN [b EXCEPT !.failure_count = @ + 1, !.state = "open"]
    ELSE [b EXCEPT !.failure_count = @ + 1]

\* _on_failure: count the failure, note its time, open at failure_threshold
_on_failure(b, now) ==
    IF b.failure_count + 1 >= b.failure_threshold
    THEN [b EXCEPT !.failure_count = @ + 1, !.last_failure_time = <<now>>, !.state = "open"]
    ELSE [b EXCEPT !.failure_count = @ + 1, !.last_failure_time = <<now>>]

\* CircuitBreaker.call at time now of a function that would return in time
\* ("return"), return after more than config.timeout seconds ("slow") or
\* raise ("raise"): the breaker afterwards, whether the function was
\* invoked, and the exception call raises ("" when it returns the result).
\* The time a call takes is not counted on the clock recovery_timeout is
\* measured with.
call(b, outcome, now) ==
    LET reset == b.state = "open" /\ _should_attempt_reset(b, now)
        entered == IF reset THEN [b EXCEPT !.state = "half_open", !.success_count = 0]
                   ELSE b
    IN IF b.state = "open" /\ ~reset
       THEN [breaker |-> b, invoked |-> FALSE, error |-> "CircuitBreakerOpenError"]
       ELSE IF outcome = "return"
       THEN [breaker |-> _on_success(entered), invoked |-> TRUE, error |-> ""]
       ELSE [breaker |-> _on_failure(entered, now), invoked |-> TRUE,
             error |-> IF outcome = "slow" THEN "TimeoutError" ELSE "Exception"]

vars == <<sessions, heap, db, persistent, disk_ok, failures, clock, nextId,
          api_key_ok, custom_keywords, breaker, agent_manager, threads, last, log>>

\* a session id is known when get_session can find it
Known(S, sid) == sid \in DOMAIN S.sessions \/ (S.persistent /\ sid \in DOMAIN S.db)

\* the number of messages a session holds, in memory or else in the table
Held(sid) ==
    IF sid \in DOMAIN sessions THEN Len(heap[sessions[sid]].conversation_history)
    ELSE IF sid \in DOMAIN db THEN Len(json_loads(db[sid].conversation_history))
    ELSE 0

RECURSIVE SumHeld(_)
SumHeld(sids) ==
    IF sids = {} THEN 0
    ELSE LET sid == CHOOSE x \in sids : TRUE IN Held(sid) + SumHeld(sids \ {sid})

\* the number of messages the store holds
TotalHeld == SumHeld(SessionIds)

\* the message dicts a caller appends directly
Messages ==
    { [role |-> "user", content |-> QAid, timestamp |-> isoformat(0),
       query_type |-> "student_question"],
      [role |-> "assistant", content |-> <<"o","k">>, timestamp |-> isoformat(0),
       agent_used |-> "financial_aid", query_type |-> "agent_response"] }

\* the keyword arguments a caller gives update_session
Kwargs ==
    { << [key |-> "conversation_history", value |-> <<>>] >>,
      << [key |-> "nickname", value |-> <<"x">>] >> }

\* the limits a caller gives get_conversation_history
Limits == {<<>>} \cup {<<k>> : k \in 0..MaxLimit}

\* The record of a call: the operation, its session id argument, whether
\* that id was known when the call was made, its other arguments (limit,
\* message, kwargs, query, runs), whether it raised, the list it returned
\* (ret; <<>> for None) and, for process_query, the dict returned, the
\* number of generator invocations and whether the generator answered.
\* resident: the id was a key of self.sessions when get_session was called;
\* hours: the argument of cleanup_old_sessions; agent_id, keywords: the
\* arguments of add_custom_keywords; warned: the call logged a warning;
\* history: the conversation history given to _build_context_aware_query.
Call(op, sid, known) ==
    [op |-> op, sid |-> sid, known |-> known, raised |-> FALSE,
     limit |-> <<>>, message |-> <<>>, kwargs |-> <<>>, query |-> <<>>, runs |-> <<>>,
     ret |-> <<>>, result |-> <<>>, calls |-> 0, answered |-> FALSE,
     resident |-> FALSE, hours |-> 0,
     agent_id |-> "", keywords |-> <<>>, warned |-> FALSE, history |-> <<>>]

\* the references held in local variables of running calls
ThreadRefs(th) == {th[t].ref : t \in DOMAIN th} \ {NoRef}

\* th: the calls in progress once the step is made
SetSM(S, th) ==
    \E C \in {Collect(S, ThreadRefs(th))} :
       /\ sessions' = C.sessions
       /\ heap' = C.heap
       /\ db' = C.db
       /\ persistent' = C.persistent
       /\ failures' = C.failures

Init ==
    /\ sessions = <<>>
    /\ heap = <<>>
    /\ db = <<>>
    /\ persistent \in BOOLEAN
    /\ disk_ok = TRUE
    /\ failures = "none"
    /\ clock = 0
    /\ nextId = 1
    /\ api_key_ok = FALSE
    /\ custom_keywords = NoCustom
    /\ breaker = openai_api
    /\ agent_manager = FALSE
    /\ threads = <<>>
    /\ last = Call("init", NoSession, FALSE)
    /\ log = <<>>

CreateSession(user_id) ==
    /\ nextId <= MaxSessions
    /\ SetSM(create_session(SM, user_id, nextId, clock), threads)
    /\ nextId' = nextId + 1
    /\ last' = [Call("create", nextId, FALSE) EXCEPT !.ret = <<nextId>>]
    /\ log' = [sid \in DOMAIN log \cup {nextId} |-> IF sid = nextId THEN <<>> ELSE log[sid]]
    /\ UNCHANGED <<disk_ok, clock, api_key_ok, custom_keywords, breaker, agent_manager, threads>>

\* get_session returns the object; what the caller sees of it is its fields
GetSession(sid) ==
    \E g \in {get_session(SM, sid)} :
       /\ SetSM(g.S, threads)
       /\ last' = [Call("get", sid, Known(SM, sid)) EXCEPT
                       !.resident = sid \in DOMAIN sessions,
                       !.ret = IF g.ref = NoRef THEN <<>> ELSE <<g.S.heap[g.ref]>>]
       /\ UNCHANGED <<disk_ok, clock, nextId, api_key_ok, custom_keywords, breaker, agent_manager, threads, log>>

UpdateSession(sid, kwargs) ==
    /\ SetSM(update_session(SM, sid, kwargs, clock), threads)
    /\ last' = [Call("update", sid, Known(SM, sid)) EXCEPT !.kwargs = kwargs]
    /\ log' = IF Known(SM, sid) /\ sid \in DOMAIN log
                 /\ \E i \in 1..Len(kwargs) : kwargs[i].key = "conversation_history"
              THEN [log EXCEPT ![sid] = SetAttrs([conversation_history |-> @], kwargs).conversation_history]
              ELSE log
    /\ UNCHANGED <<disk_ok, clock, nextId, api_key_ok, custom_keywords, breaker, agent_manager, threads>>

AppendMessage(sid, message) ==
    /\ SetSM(add_to_conversation_history(SM, sid, message, clock), threads)
    /\ last' = [Call("append", sid, Known(SM, sid)) EXCEPT !.message = <<message>>]
    /\ log' = IF Known(SM, sid) /\ sid \in DOMAIN log
              THEN [log EXCEPT ![sid] = Append(@, message)] ELSE log
    /\ UNCHANGED <<disk_ok, clock, nextId, api_key_ok, custom_keywords, breaker, agent_manager, threads>>

History(sid, limit) ==
    \E h \in {get_conversation_history(SM, sid, limit)} :
       /\ SetSM(h.S, threads)
       /\ last' = [Call("history", sid, Known(SM, sid)) EXCEPT
                       !.limit = limit, !.ret = h.ret]
       /\ UNCHANGED <<disk_ok, clock, nextId, api_key_ok, custom_keywords, breaker, agent_manager, threads, log>>

\* the process ends and a new SessionManager is built on the same table
Restart ==
    /\ sessions # <<>>
    /\ sessions' = <<>>
    /\ heap' = <<>>
    /\ failures' = IF failures = "none" THEN "none" ELSE "earlier"
    /\ last' = Call("restart", NoSession, FALSE)
    /\ UNCHANGED <<db, persistent, disk_ok, clock, nextId, api_key_ok, custom_keywords, breaker, agent_manager,
                   threads, log>>

\* cleanup_old_sessions(hours)
Cleanup(hours) ==
    \E c \in {cleanup_old_sessions(SM, hours, clock)} :
       /\ SetSM(c.S, threads)
       /\ last' = [Call("cleanup", NoSession, FALSE) EXCEPT !.hours = hours, !.ret = <<c.ret>>]
       /\ UNCHANGED <<disk_ok, clock, nextId, api_key_ok, custom_keywords, breaker, agent_manager, threads, log>>

\* the sqlite file stops being writable (disk full, file locked, read-only)
DiskFails ==
    /\ disk_ok
    /\ disk_ok' = FALSE
    /\ last' = Call("disk", NoSession, FALSE)
    /\ UNCHANGED <<sessions, heap, db, persistent, failures, clock, nextId,
                   api_key_ok, custom_keywords, breaker, agent_manager, threads, log>>

\* the sqlite file is writable again
DiskRecovers ==
    /\ ~disk_ok
    /\ disk_ok' = TRUE
    /\ last' = Call("disk", NoSession, FALSE)
    /\ UNCHANGED <<sessions, heap, db, persistent, failures, clock, nextId,
                   api_key_ok, custom_keywords, breaker, agent_manager, threads, log>>

\* time passes
Tick ==
    /\ clock < MaxClock
    /\ clock' = clock + 1
    /\ last' = Call("tick", NoSession, FALSE)
    /\ UNCHANGED <<sessions, heap, db, persistent, disk_ok, failures, nextId,
                   api_key_ok, custom_keywords, breaker, agent_manager, threads, log>>

\* the texts the external generator may answer with: "" and "ok"
GenTexts == { <<>>, <<"o","k">> }
\* the outcomes of one run_sync invocation
Runs == {RunRaises} \cup {RunReturns(text) : text \in GenTexts}

\* process_query(student_query, session_id): session_id is NoSession when
\* the caller gives none.  runs[i] is what the i-th generator invocation of
\* this call would do.
ProcessQuery(student_query, session_id, runs) ==
    /\ session_id = NoSession => nextId <= MaxSessions
    /\ \E r \in {process_query(SM, student_query, session_id, None, runs, nextId, clock)} :
       LET sid == r.result.session_id
           known == session_id = NoSession \/ Known(SM, session_id)
       IN
       /\ SetSM(r.S, threads)
       /\ nextId' = IF session_id = NoSession THEN nextId + 1 ELSE nextId
       /\ last' = [Call("process", session_id, known) EXCEPT
                       !.query = student_query, !.runs = runs, !.raised = r.raised,
                       !.result = <<r.result>>, !.calls = r.calls, !.answered = r.answered]
       /\ log' = IF ~known THEN log
                 ELSE [x \in DOMAIN log \cup {sid} |->
                         (IF x \in DOMAIN log /\ session_id # NoSession THEN log[x] ELSE <<>>)
                         \o (IF x = sid
                             THEN << query_message(student_query, clock),
                                     response_message(r.result.response,
                                                      r.result.agent_used, clock) >>
                             ELSE <<>>)]
       /\ UNCHANGED <<disk_ok, clock, api_key_ok, custom_keywords, breaker, agent_manager, threads>>

Next ==
    \/ CreateSession("test_user")
    \/ \E sid \in SessionIds : GetSession(sid)
    \/ \E sid \in SessionIds, kwargs \in Kwargs : UpdateSession(sid, kwargs)
    \/ /\ TotalHeld < MaxLen
       /\ \E sid \in SessionIds, message \in Messages : AppendMessage(sid, message)
    \/ \E sid \in SessionIds, limit \in Limits : History(sid, limit)
    \/ Restart
    \/ Tick

Spec == Init /\ [][Next]_vars

(***************************************************************************)
(* The store in persistent mode on a sqlite file whose writes can fail     *)
(***************************************************************************)
\* the keyword arguments given to update_session here
DurKwargs ==
    { << [key |-> "shared_context",
          value |-> << [key |-> <<"g","p","a">>, value |-> <<"3">>] >>] >> }

\* the message appended here
DurMessage == CHOOSE message \in Messages : message.role = "user"

InitDurable ==
    /\ sessions = <<>>
    /\ heap = <<>>
    /\ db = <<>>
    /\ persistent = TRUE
    /\ disk_ok = TRUE
    /\ failures = "none"
    /\ clock = 0
    /\ nextId = 1
    /\ api_key_ok = FALSE
    /\ custom_keywords = NoCustom
    /\ breaker = openai_api
    /\ agent_manager = FALSE
    /\ threads = <<>>
    /\ last = Call("init", NoSession, FALSE)
    /\ log = <<>>

\* one session is created; the other ids are ids no session has
NextDurable ==
    \/ nextId = 1 /\ CreateSession("test_user")
    \/ \E sid \in SessionIds : GetSession(sid)
    \/ \E sid \in SessionIds, kwargs \in DurKwargs : UpdateSession(sid, kwargs)
    \/ /\ \A sid \in DOMAIN log : Len(log[sid]) < MaxLen
       /\ \E sid \in SessionIds : AppendMessage(sid, DurMessage)
    \/ Restart
    \/ Tick
    \/ DiskFails
    \/ DiskRecovers

SpecDurable == InitDurable /\ [][NextDurable]_vars

(***************************************************************************)
(* The store with cleanup sweeps                                           *)
(***************************************************************************)
\* the max ages given to cleanup_old_sessions: 0, ..., and one larger than
\* every age a session can have
Hours == 0..(MaxClock + 1)


NextCleanup ==
    \/ CreateSession("test_user")
    \/ \E sid \in SessionIds : GetSession(sid)
    \/ /\ TotalHeld < MaxLen
       /\ \E sid \in SessionIds : AppendMessage(sid, DurMessage)
    \/ \E hours \in Hours : Cleanup(hours)
    \/ Restart
    \/ Tick

\* the id of a session an earlier process left in the table
OldSid == MaxSessions + 1

\* A new manager; in persistent mode the table holds the session an earlier
\* process created at clock reading 0.
InitCleanup ==
    /\ persistent \in BOOLEAN
    /\ sessions = <<>>
    /\ heap = <<>>
    /\ db = IF persistent
            THEN create_session(EmptySM(TRUE), "test_user", OldSid, 0).db
            ELSE <<>>
    /\ disk_ok = TRUE
    /\ failures = "none"
    /\ clock = 0
    /\ nextId = 1
    /\ api_key_ok = FALSE
    /\ custom_keywords = NoCustom
    /\ breaker = openai_api
    /\ agent_manager = FALSE
    /\ threads = <<>>
    /\ last = Call("init", NoSession, FALSE)
    /\ log = <<>>

SpecCleanup == InitCleanup /\ [][NextCleanup]_vars

(***************************************************************************)
(* The router applied to queries made of a few words                       *)
(***************************************************************************)
\* most words of a routed query
MaxWords == 3

\* the words: "cost", "AID", "Study", "job", "Career", "college", "hello"
RouteWords ==
    { <<"c","o","s","t">>, <<"A","I","D">>, <<"S","t","u","d","y">>, <<"j","o","b">>,
      <<"C","a","r","e","e","r">>, <<"c","o","l","l","e","g","e">>,
      <<"h","e","l","l","o">> }

\* the texts of exactly n words, separated by one space
RECURSIVE TextsOfWords(_)
TextsOfWords(n) ==
    IF n = 0 THEN {<<>>}
    ELSE IF n = 1 THEN RouteWords
    ELSE {t \o <<" ">> \o w : t \in TextsOfWords(n - 1), w \in RouteWords}

RouteQueries == UNION {TextsOfWords(n) : n \in 0..MaxWords}

\* a query arrives
InitRoute ==
    /\ sessions = <<>>
    /\ heap = <<>>
    /\ db = <<>>
    /\ persistent = FALSE
    /\ disk_ok = TRUE
    /\ failures = "none"
    /\ clock = 0
    /\ nextId = 1
    /\ api_key_ok = FALSE
    /\ custom_keywords = NoCustom
    /\ breaker = openai_api
    /\ agent_manager = FALSE
    /\ threads = <<>>
    /\ \E query \in RouteQueries : last = [Call("query", NoSession, FALSE) EXCEPT !.query = query]
    /\ log = <<>>

\* router.route_query(query): ret holds the agent id returned
RouteQuery ==
    /\ last.op = "query"
    /\ last' = [last EXCEPT !.op = "route", !.ret = <<route_query(last.query)>>]
    /\ UNCHANGED <<sessions, heap, db, persistent, disk_ok, failures, clock, nextId,
                   api_key_ok, custom_keywords, breaker, agent_manager, threads, log>>

NextRoute == RouteQuery

SpecRoute == InitRoute /\ [][NextRoute]_vars

(***************************************************************************)
(* The orchestrator: process_query on new, existing and unknown sessions   *)
(***************************************************************************)
\* most messages the store holds in the orchestrator specification
MaxProcLen == 4
\* most process_query calls on the session of the turn specification
MaxTurns == 7

Queries == {QEmpty, QJob}

InitProc ==
    /\ sessions = <<>>
    /\ heap = <<>>
    /\ db = <<>>
    /\ persistent \in BOOLEAN
    /\ disk_ok = TRUE
    /\ failures = "none"
    /\ clock = 0
    /\ nextId = 1
    /\ api_key_ok \in BOOLEAN
    /\ custom_keywords = NoCustom
    /\ breaker = openai_api
    /\ agent_manager \in BOOLEAN
    /\ threads = <<>>
    /\ last = Call("init", NoSession, FALSE)
    /\ log = <<>>

NextProc ==
    \/ CreateSession("test_user")
    \/ /\ TotalHeld + 2 <= MaxProcLen
       /\ \E q \in Queries, sid \in SessionIds \cup {NoSession},
             runs \in [1..max_attempts -> Runs] : ProcessQuery(q, sid, runs)
    \/ Restart

SpecProc == InitProc /\ [][NextProc]_vars

\* one session, asked the same question again and again
NextTurns ==
    \/ nextId = 1 /\ CreateSession("test_user")
    \/ \E runs \in [1..max_attempts -> Runs] :
          /\ nextId > 1
          /\ Held(1) < 2 * MaxTurns
          /\ ProcessQuery(QAid, 1, runs)

SpecTurns == InitProc /\ [][NextTurns]_vars

(***************************************************************************)
(* Threads calling add_to_conversation_history on one session at once.     *)
(* SessionManager takes no lock, so a call is a sequence of steps between  *)
(* which other threads run: the lookup in self.sessions, the SELECT of     *)
(* _load_session, the store into self.sessions, list.append, the           *)
(* assignment of last_updated, the json.dumps of _save_session's           *)
(* arguments and the INSERT OR REPLACE with its commit.                    *)
(***************************************************************************)
\* number of threads, each making one call
NumThreads == 2
Threads == 1..NumThreads

\* the session all threads append to
SharedSid == 1

\* the message thread t appends: "m", "mm", ...
ThreadMessage(t) ==
    [role |-> "user", content |-> [i \in 1..t |-> "m"], timestamp |-> isoformat(0),
     query_type |-> "student_question"]

\* A session was created; in persistent mode the manager may since have
\* been rebuilt, so that the session is in the table only.
InitConc ==
    /\ persistent \in BOOLEAN
    /\ \E resident \in BOOLEAN :
          /\ ~persistent => resident
          /\ \E S \in {create_session(EmptySM(persistent), "test_user", SharedSid, 0)} :
                /\ sessions = IF resident THEN S.sessions ELSE <<>>
                /\ heap = IF resident THEN S.heap ELSE <<>>
                /\ db = S.db
    /\ disk_ok = TRUE
    /\ failures = "none"
    /\ clock = 0
    /\ nextId = SharedSid + 1
    /\ api_key_ok = FALSE
    /\ custom_keywords = NoCustom
    /\ breaker = openai_api
    /\ agent_manager = FALSE
    /\ threads = [t \in Threads |-> [pc |-> "lookup", ref |-> NoRef, row |-> <<>>]]
    /\ last = Call("init", NoSession, FALSE)
    /\ log = [sid \in {SharedSid} |-> <<>>]

ThreadFrame ==
    UNCHANGED <<persistent, disk_ok, failures, clock, nextId, api_key_ok, custom_keywords, breaker, agent_manager, last>>

\* get_session, `if session_id in self.sessions: return self.sessions[...]`,
\* else `if self.persistent:` (session.py:87-90)
LookupStep(t) ==
    /\ threads[t].pc = "lookup"
    /\ threads' = [threads EXCEPT
          ![t].pc = IF SharedSid \in DOMAIN sessions THEN "append"
                    ELSE IF persistent THEN "load" ELSE "done",
          ![t].ref = IF SharedSid \in DOMAIN sessions THEN sessions[SharedSid] ELSE NoRef]
    /\ UNCHANGED <<sessions, heap, db, log>>
    /\ ThreadFrame

\* session = self._load_session(session_id): a new object (session.py:91)
LoadStep(t) ==
    /\ threads[t].pc = "load"
    /\ \E loaded \in {_load_session(SM, SharedSid)}, o \in {NewRef(SM)} :
          IF loaded = <<>>
          THEN /\ threads' = [threads EXCEPT ![t].pc = "done"]
               /\ UNCHANGED heap
          ELSE /\ threads' = [threads EXCEPT ![t].pc = "install", ![t].ref = o]
               /\ heap' = [p \in DOMAIN heap \cup {o} |->
                             IF p = o THEN loaded[1] ELSE heap[p]]
    /\ UNCHANGED <<sessions, db, log>>
    /\ ThreadFrame

\* self.sessions[session_id] = session (session.py:93)
InstallStep(t) ==
    /\ threads[t].pc = "install"
    /\ threads' = [threads EXCEPT ![t].pc = "append"]
    /\ \E S \in {[SM EXCEPT !.sessions =
                     [sid \in DOMAIN sessions \cup {SharedSid} |->
                        IF sid = SharedSid THEN threads[t].ref ELSE sessions[sid]]]} :
          SetSM(S, threads')
    /\ UNCHANGED log
    /\ UNCHANGED <<disk_ok, clock, nextId, api_key_ok, custom_keywords, breaker, agent_manager, last>>

\* session.conversation_history.append(message) (session.py:118)
AppendStep(t) ==
    /\ threads[t].pc = "append"
    /\ threads' = [threads EXCEPT ![t].pc = "stamp"]
    /\ heap' = [heap EXCEPT ![threads[t].ref].conversation_history =
                                Append(@, ThreadMessage(t))]
    /\ log' = [log EXCEPT ![SharedSid] = Append(@, ThreadMessage(t))]
    /\ UNCHANGED <<sessions, db>>
    /\ ThreadFrame

\* session.last_updated = datetime.now(); `if self.persistent:`
\* (session.py:119-121)
StampStep(t) ==
    /\ threads[t].pc = "stamp"
    /\ threads' = [threads EXCEPT ![t].pc = IF persistent THEN "dump" ELSE "done",
                                  ![t].ref = IF persistent THEN @ ELSE NoRef]
    /\ \E S \in {[SM EXCEPT !.heap[threads[t].ref].last_updated = clock]} : SetSM(S, threads')
    /\ UNCHANGED log
    /\ UNCHANGED <<disk_ok, clock, nextId, api_key_ok, custom_keywords, breaker, agent_manager, last>>

\* the arguments of conn.execute are evaluated: json.dumps(...) of the
\* object as it is now (session.py:176-184)
DumpStep(t) ==
    /\ threads[t].pc = "dump"
    /\ threads' = [threads EXCEPT ![t].pc = "commit",
                                  ![t].row = <<RowOf(heap[threads[t].ref])>>]
    /\ UNCHANGED <<sessions, heap, db, log>>
    /\ ThreadFrame

\* INSERT OR REPLACE ...; conn.commit() (session.py:171-185)
CommitStep(t) ==
    /\ threads[t].pc = "commit"
    /\ threads' = [threads EXCEPT ![t].pc = "done", ![t].ref = NoRef, ![t].row = <<>>]
    /\ \E S \in {[SM EXCEPT !.db = [sid \in DOMAIN db \cup {SharedSid} |->
                     IF sid = SharedSid THEN threads[t].row[1] ELSE db[sid]]]} :
          SetSM(S, threads')
    /\ UNCHANGED log
    /\ UNCHANGED <<disk_ok, clock, nextId, api_key_ok, custom_keywords, breaker, agent_manager, last>>

NextConc ==
    \E t \in Threads :
        \/ LookupStep(t)
        \/ LoadStep(t)
        \/ InstallStep(t)
        \/ AppendStep(t)
        \/ StampStep(t)
        \/ DumpStep(t)
        \/ CommitStep(t)

SpecConc == InitConc /\ [][NextConc]_vars

(***************************************************************************)
(* A cleanup sweep running while a thread appends to a session.  The sweep *)
(* is a sequence of steps too: the cutoff (session.py:138), the loop that  *)
(* fills to_remove (143-145), one `del self.sessions[session_id]` for each *)
(* entry (147-149), and the DELETE with its commit (154-160), which sqlite *)
(* executes as one transaction.                                            *)
(***************************************************************************)
\* the thread that appends and the thread that sweeps
Appender == 1
Sweeper == 0

\* The session was created at clock reading 0 and it is now 1; in
\* persistent mode the session may be in the table only.  The sweep is
\* called with any of the max ages.
InitSweep ==
    /\ persistent \in BOOLEAN
    /\ \E resident \in BOOLEAN :
          /\ ~persistent => resident
          /\ \E S \in {create_session(EmptySM(persistent), "test_user", SharedSid, 0)} :
                /\ sessions = IF resident THEN S.sessions ELSE <<>>
                /\ heap = IF resident THEN S.heap ELSE <<>>
                /\ db = S.db
    /\ disk_ok = TRUE
    /\ failures = "none"
    /\ clock = 1
    /\ nextId = SharedSid + 1
    /\ api_key_ok = FALSE
    /\ custom_keywords = NoCustom
    /\ breaker = openai_api
    /\ agent_manager = FALSE
    /\ \E hours \in Hours :
          threads = [t \in {Sweeper, Appender} |->
                       IF t = Appender
                       THEN [pc |-> "lookup", ref |-> NoRef, row |-> <<>>]
                       ELSE [pc |-> "cutoff", ref |-> NoRef, row |-> <<>>,
                             hours |-> hours, cutoff |-> 0, to_remove |-> {},
                             removed_count |-> 0]]
    /\ last = Call("init", NoSession, FALSE)
    /\ log = [sid \in {SharedSid} |-> <<>>]

\* cutoff = datetime.now() - timedelta(hours=hours); removed_count = 0
\* (session.py:138-139)
SweepCutoffStep ==
    /\ threads[Sweeper].pc = "cutoff"
    /\ threads' = [threads EXCEPT ![Sweeper].pc = "scan",
                                  ![Sweeper].cutoff = clock - threads[Sweeper].hours]
    /\ UNCHANGED <<sessions, heap, db, log>>
    /\ ThreadFrame

\* the loop over self.sessions.items() (session.py:142-145)
SweepScanStep ==
    /\ threads[Sweeper].pc = "scan"
    /\ threads' = [threads EXCEPT ![Sweeper].pc = "delete",
                                  ![Sweeper].to_remove = ToRemove(SM, threads[Sweeper].cutoff)]
    /\ UNCHANGED <<sessions, heap, db, log>>
    /\ ThreadFrame

\* one round of `for session_id in to_remove: del self.sessions[session_id];
\* removed_count += 1`, or the end of the loop and `if self.persistent:`
\* (session.py:147-152)
SweepDeleteStep ==
    /\ threads[Sweeper].pc = "delete"
    /\ IF threads[Sweeper].to_remove = {}
       THEN /\ threads' = [threads EXCEPT
                              ![Sweeper].pc = IF persistent THEN "dbdelete" ELSE "done"]
            /\ UNCHANGED <<sessions, heap, db, persistent, failures>>
       ELSE \E sid \in {CHOOSE x \in threads[Sweeper].to_remove :
                           \A y \in threads[Sweeper].to_remove : x <= y} :
               /\ threads' = [threads EXCEPT
                                 ![Sweeper].to_remove = @ \ {sid},
                                 ![Sweeper].removed_count = @ + 1]
               /\ \E S \in {[SM EXCEPT !.sessions =
                                 [x \in DOMAIN sessions \ {sid} |-> sessions[x]]]} :
                     SetSM(S, threads')
    /\ UNCHANGED log
    /\ UNCHANGED <<disk_ok, clock, nextId, api_key_ok, custom_keywords, breaker, agent_manager, last>>

\* DELETE FROM sessions WHERE last_updated < ?; removed_count +=
\* cursor.rowcount; conn.commit() (session.py:154-160)
SweepDbDeleteStep ==
    /\ threads[Sweeper].pc = "dbdelete"
    /\ \E rows \in {RowsToDelete(SM, threads[Sweeper].cutoff)} :
          /\ threads' = [threads EXCEPT
                            ![Sweeper].pc = "done",
                            ![Sweeper].removed_count = @ + Cardinality(rows)]
          /\ \E S \in {[SM EXCEPT !.db = [sid \in DOMAIN db \ rows |-> db[sid]]]} :
                SetSM(S, threads')
    /\ UNCHANGED log
    /\ UNCHANGED <<disk_ok, clock, nextId, api_key_ok, custom_keywords, breaker, agent_manager, last>>

NextSweep ==
    \/ SweepCutoffStep
    \/ SweepScanStep
    \/ SweepDeleteStep
    \/ SweepDbDeleteStep
    \/ LookupStep(Appender)
    \/ LoadStep(Appender)
    \/ InstallStep(Appender)
    \/ AppendStep(Appender)
    \/ StampStep(Appender)
    \/ DumpStep(Appender)
    \/ CommitStep(Appender)

SpecSweep == InitSweep /\ [][NextSweep]_vars

(***************************************************************************)
(* Properties                                                              *)
(***************************************************************************)
\* what get_session would find for a session id: the resident object, else
\* the row of the table
StoredIn(S, sid) ==
    IF sid \in DOMAIN S.sessions THEN S.heap[S.sessions[sid]]
    ELSE SessionOfRow(S.db[sid])

Stored(sid) == StoredIn(SM, sid)

StoredHistory(sid) ==
    IF Known(SM, sid) THEN Stored(sid).conversation_history ELSE <<>>

Min(a, b) == IF a <= b THEN a ELSE b

\* the last n entries of a sequence
LastN(seq, n) == SubSeq(seq, Len(seq) - Min(n, Len(seq)) + 1, Len(seq))

\* C1: the status of a process() result is 'success' exactly when the text
\* returned came from the external generator, and 'fallback' whenever the
\* generator failed or was not attempted.
C1_StatusTellsSource ==
    last.op = "process" =>
        /\ last.result[1].status = "success" => last.answered
        /\ ~last.answered => last.result[1].status = "fallback"

\* C2: process() returns, for every query, session id argument and generator
\* outcome, a result with non-empty response text and a status in
\* {success, fallback}; it never raises.
C2_ProcessAlwaysAnswers ==
    last.op = "process" =>
        /\ ~last.raised
        /\ last.result[1].response # <<>>
        /\ last.result[1].status \in {"success", "fallback"}

\* the generator answered with the empty text for the empty query on a
\* session id that does not exist
C2_Witness ==
    /\ last.op = "process"
    /\ last.query = QEmpty
    /\ last.sid # NoSession /\ ~last.known
    /\ api_key_ok /\ agent_manager
    /\ last.runs[1] = RunReturns(<<>>)
    /\ last.result[1].response # <<>>

\* C3: when the first generator attempt of a process() call fails and a
\* second attempt would succeed, the generator is invoked a second time and
\* its text is returned with status success.
C3_SecondAttempt ==
    ( /\ last.op = "process"
      /\ api_key_ok /\ agent_manager
      /\ process_with_agent(last.result[1].agent_used, last.runs[1]).raised
      /\ ~process_with_agent(last.result[1].agent_used, last.runs[2]).raised )
    => /\ last.calls = 2
       /\ last.result[1].response = last.runs[2].final_output
       /\ last.result[1].status = "success"

\* C4: after a process() call returns, the session the result names exists
\* and its history ends with the user message carrying the raw query and
\* the assistant message carrying the returned text and specialist.
C4_ExchangeRecorded ==
    last.op = "process" =>
        LET sid == last.result[1].session_id
            h == StoredHistory(sid)
        IN /\ Known(SM, sid)
           /\ Len(h) >= 2
           /\ h[Len(h) - 1].role = "user"
           /\ h[Len(h) - 1].content = last.query
           /\ h[Len(h)].role = "assistant"
           /\ h[Len(h)].content = last.result[1].response
           /\ h[Len(h)].agent_used = last.result[1].agent_used

\* C5: the k-th process() call made on a session returns conversation_turn
\* = k, and has_context is true exactly when k > 1.
C5_TurnNumber ==
    (last.op = "process" /\ last.known) =>
        LET k == Len(log[last.result[1].session_id]) \div 2
        IN /\ last.result[1].metadata.conversation_turn = k
           /\ last.result[1].metadata.has_context = (k > 1)

\* C7: append_message on a session id that exists neither in memory nor in
\* the table fails with an error the caller sees.
C7_AppendUnknownFails ==
    (last.op = "append" /\ ~last.known) => last.raised

\* C8: get, history, append_message and update called with an unknown
\* session id create no session and change no session, in memory or in the
\* table.
C8_UnknownIdChangesNothing ==
    [][ (last'.op \in {"get", "history", "append", "update"} /\ ~last'.known)
        => (sessions' = sessions /\ heap' = heap /\ db' = db) ]_vars

\* an update with keyword arguments was made on an unknown id while a
\* session with messages exists
C8_Witness ==
    /\ last.op = "update" /\ ~last.known
    /\ last.kwargs # <<>>
    /\ \E sid \in DOMAIN sessions : Len(heap[sessions[sid]].conversation_history) > 0

\* C9: after N append_message calls on a freshly created session,
\* history(id) without a limit returns exactly those N messages in
\* insertion order.
C9_HistoryIsWhatWasAppended ==
    (last.op = "history" /\ last.limit = <<>> /\ last.known /\ last.sid \in DOMAIN log)
        => last.ret = log[last.sid]

\* two different messages were appended and read back
C9_Witness ==
    /\ last.op = "history" /\ last.limit = <<>> /\ last.known
    /\ Len(last.ret) = 2
    /\ last.ret[1] # last.ret[2]
    /\ last.ret = log[last.sid]

\* C10: history(id, limit=k), k >= 0, returns the last min(k, N) messages
\* in order and changes neither the session's messages and timestamp nor
\* its row in the table.
C10_HistoryLimit ==
    [][ (last'.op = "history" /\ last'.known /\ last'.limit # <<>>)
        => /\ last'.limit[1] >= 0 =>
                  last'.ret = LastN(StoredIn(SM', last'.sid).conversation_history,
                                    last'.limit[1])
           /\ StoredIn(SM', last'.sid) = StoredIn(SM, last'.sid)
           /\ db' = db ]_vars


\* the number of places where a message occurs in a history
Occurrences(history, message) ==
    Cardinality({i \in 1..Len(history) : history[i] = message})

\* C6: once concurrent append_message calls on one session have all
\* returned, the history in memory and the history in the table hold every
\* appended message exactly once and nothing else.
C6_NoLostAppend ==
    (\A t \in Threads : threads[t].pc = "done") =>
        /\ SharedSid \in DOMAIN sessions
        /\ LET h == heap[sessions[SharedSid]].conversation_history
           IN /\ Len(h) = NumThreads
              /\ \A t \in Threads : Occurrences(h, ThreadMessage(t)) = 1
        /\ persistent =>
              LET d == json_loads(db[SharedSid].conversation_history)
              IN /\ Len(d) = NumThreads
                 /\ \A t \in Threads : Occurrences(d, ThreadMessage(t)) = 1

\* s is a prefix of t
IsPrefix(s, t) == Len(s) <= Len(t) /\ SubSeq(t, 1, Len(s)) = s

\* C11: under create, get, update_session, append_message and history, the
\* history a session had before a call is a prefix of the history it has
\* after the call, for every session that exists before and after.
C11_AppendOnly ==
    [][ last'.op \in {"create", "get", "update", "append", "history"}
        => \A sid \in SessionIds :
              (Known(SM, sid) /\ Known(SM', sid))
              => IsPrefix(StoredIn(SM, sid).conversation_history,
                          StoredIn(SM', sid).conversation_history) ]_vars

\* C12: in persistent mode with no failed write, when create, append_message
\* or update_session returns, the row of the affected session equals the
\* object in memory (and so does the row of every resident session); a get
\* made after the cache was discarded returns the session as its row has it,
\* with every message appended so far.
C12_DurableEqualsMemory ==
    (persistent /\ failures = "none") =>
        /\ (last.op = "create" \/ (last.op \in {"append", "update"} /\ last.known))
           => /\ last.sid \in DOMAIN sessions
              /\ last.sid \in DOMAIN db
        /\ \A sid \in DOMAIN sessions :
              /\ sid \in DOMAIN db
              /\ SessionOfRow(db[sid]) = heap[sessions[sid]]
        /\ (last.op = "get" /\ last.known /\ ~last.resident)
           => /\ last.ret = <<SessionOfRow(db[last.sid])>>
              /\ last.ret[1].conversation_history = log[last.sid]

\* update_session returned for a session that holds a message, at a later
\* clock reading than its creation, and its row has the new shared context
C12_Witness ==
    /\ persistent /\ failures = "none"
    /\ last.op = "update" /\ last.known
    /\ Len(SessionOfRow(db[last.sid]).conversation_history) > 0
    /\ SessionOfRow(db[last.sid]).shared_context # <<>>
    /\ SessionOfRow(db[last.sid]).last_updated > SessionOfRow(db[last.sid]).created_at

\* C13: get of a session that is in the table but not in memory returns a
\* session equal to the row and makes it resident; get of a resident session
\* returns the object in memory and changes nothing; an append extends the
\* history get finds, rehydrated or resident.
C13_Rehydrate ==
    [][ /\ last'.op = "get" =>
             /\ (last'.sid \notin DOMAIN sessions /\ persistent /\ last'.sid \in DOMAIN db)
                => /\ last'.ret = <<SessionOfRow(db[last'.sid])>>
                   /\ last'.sid \in DOMAIN sessions'
                   /\ heap'[sessions'[last'.sid]] = SessionOfRow(db[last'.sid])
                   /\ db' = db
             /\ last'.sid \in DOMAIN sessions
                => /\ last'.ret = <<heap[sessions[last'.sid]]>>
                   /\ sessions' = sessions /\ heap' = heap /\ db' = db
        /\ (last'.op = "append" /\ last'.known) =>
             /\ last'.sid \in DOMAIN sessions'
             /\ heap'[sessions'[last'.sid]].conversation_history
                    = Append(StoredIn(SM, last'.sid).conversation_history, last'.message[1])
      ]_vars

\* get found in the table only a session that holds a message and a shared
\* context entry
C13_Witness ==
    /\ last.op = "get" /\ last.known /\ ~last.resident
    /\ last.sid \in DOMAIN sessions
    /\ Len(last.ret[1].conversation_history) > 0
    /\ last.ret[1].shared_context # <<>>

\* C14: once a durable write has failed, the store is in memory-only mode
\* for the rest of the process: persistent is false and no later operation
\* writes to the table.
C14_DegradesToMemoryOnly ==
    [][ failures' = "current" =>
           /\ ~persistent'
           /\ failures = "current" => db' = db ]_vars

\* a session exists when it is in memory or in the table
Exists(S, sid) == sid \in DOMAIN S.sessions \/ sid \in DOMAIN S.db

\* C15: a cleanup sweep removes from memory and from the table every session
\* whose last update is older than now - max_age, and leaves every other
\* session as it was and retrievable.
C15_CleanupByAge ==
    [][ last'.op = "cleanup" =>
           \A sid \in SessionIds :
              Known(SM, sid) =>
                 IF StoredIn(SM, sid).last_updated < clock - last'.hours
                 THEN ~Exists(SM', sid)
                 ELSE /\ Known(SM', sid)
                      /\ StoredIn(SM', sid) = StoredIn(SM, sid) ]_vars

\* a sweep removed a session and kept another one, which holds a message
C15_Witness ==
    /\ last.op = "cleanup"
    /\ last.ret[1] > 0
    /\ \E sid \in SessionIds :
          /\ Known(SM, sid)
          /\ Len(StoredIn(SM, sid).conversation_history) > 0

\* C16: cleanup returns the number of distinct sessions it removed.
C16_CleanupCount ==
    [][ last'.op = "cleanup" =>
           last'.ret[1] = Cardinality({sid \in SessionIds :
                                         Exists(SM, sid) /\ ~Exists(SM', sid)}) ]_vars

\* C17: cleanup with max_age 0 leaves no session, and cleanup with a max_age
\* larger than every age removes none.
C17_CleanupExtremes ==
    [][ last'.op = "cleanup" =>
           /\ last'.hours = 0 => \A sid \in SessionIds : ~Exists(SM', sid)
           /\ last'.hours > MaxClock =>
                 (sessions' = sessions /\ heap' = heap /\ db' = db) ]_vars

\* C18: when a sweep and an append_message call that ran at the same time
\* have both returned and the append updated the session (its timestamp is
\* then not older than the sweep's cutoff), the session is still
\* retrievable and its history holds the appended message.
C18_SweepKeepsUpdated ==
    ( /\ threads[Sweeper].pc = "done"
      /\ threads[Appender].pc = "done"
      /\ log[SharedSid] # <<>> )
    => /\ Known(SM, SharedSid)
       /\ Occurrences(StoredHistory(SharedSid), ThreadMessage(Appender)) = 1

\* the score of the i-th specialist of the table for a query
ScoreOf(i, query) == Score(agent_keywords[i].keywords, Lower(query))

\* C19: route returns one of the four identifiers for every query, and
\* 'coordinator' whenever no keyword of any specialist occurs in the
\* lower-cased query, in particular for the empty query.
C19_DefaultCoordinator ==
    last.op = "route" =>
        /\ last.ret[1] \in {"financial_aid", "course_difficulty", "career_counselor",
                            "coordinator"}
        /\ (\A i \in 1..Len(agent_keywords) :
               \A k \in 1..Len(agent_keywords[i].keywords) :
                  ~Contains(Lower(last.query), agent_keywords[i].keywords[k]))
           => last.ret[1] = "coordinator"
        /\ last.query = <<>> => last.ret[1] = "coordinator"

\* a query of two words with no keyword in it was routed
C19_Witness ==
    /\ last.op = "route"
    /\ last.query = <<"h","e","l","l","o"," ","h","e","l","l","o">>
    /\ last.ret = <<"coordinator">>

\* C20: when some specialist scores above zero, route returns a specialist
\* whose score is maximal, and of those with the maximal score the one that
\* comes first in the keyword table.
C20_MaxScoreFirstInTable ==
    (last.op = "route" /\ \E i \in 1..Len(agent_keywords) : ScoreOf(i, last.query) > 0)
    => \E i \in 1..Len(agent_keywords) :
          /\ last.ret[1] = agent_keywords[i].agent_id
          /\ \A j \in 1..Len(agent_keywords) : ScoreOf(j, last.query) <= ScoreOf(i, last.query)
          /\ \A j \in 1..(i - 1) : ScoreOf(j, last.query) < ScoreOf(i, last.query)

\* a query of three words with capitals, in which the second and the third
\* specialist of the table tie above the first, was routed to the second
C20_Witness ==
    /\ last.op = "route"
    /\ last.ret = <<"course_difficulty">>
    /\ ScoreOf(1, last.query) = 0
    /\ ScoreOf(2, last.query) = 1
    /\ ScoreOf(3, last.query) = 1
    /\ Len(last.query) > 10
    /\ last.query # Lower(last.query)

(***************************************************************************)
(* The router while keywords are added at run time                         *)
(***************************************************************************)
\* most keywords added at run time
MaxCustom == 2

InitKeywords ==
    /\ sessions = <<>>
    /\ heap = <<>>
    /\ db = <<>>
    /\ persistent = FALSE
    /\ disk_ok = TRUE
    /\ failures = "none"
    /\ clock = 0
    /\ nextId = 1
    /\ api_key_ok = FALSE
    /\ custom_keywords = NoCustom
    /\ breaker = openai_api
    /\ agent_manager = FALSE
    /\ threads = <<>>
    /\ last = Call("init", NoSession, FALSE)
    /\ log = <<>>

RouterFrame ==
    UNCHANGED <<sessions, heap, db, persistent, disk_ok, failures, clock, nextId,
                api_key_ok, breaker, agent_manager, threads, log>>

\* router.add_custom_keywords(agent_id, keywords)
AddCustomKeywords(agent_id, keywords) ==
    /\ Len(custom_keywords[1] \o custom_keywords[2] \o custom_keywords[3])
          + Len(keywords) <= MaxCustom
    /\ \E r \in {add_custom_keywords(custom_keywords, agent_id, keywords)} :
          /\ custom_keywords' = r.custom
          /\ last' = [Call("add_keywords", NoSession, FALSE) EXCEPT
                         !.agent_id = agent_id, !.keywords = keywords,
                         !.warned = r.warned]
    /\ RouterFrame

\* router.route_query(query) with the table as it is now
RouteNow(query) ==
    /\ last' = [Call("route", NoSession, FALSE) EXCEPT
                   !.query = query,
                   !.ret = <<route_query_table(Table(custom_keywords), query)>>]
    /\ UNCHANGED custom_keywords
    /\ RouterFrame

\* router.get_routing_explanation(query)
Explain(query) ==
    /\ last' = [Call("explain", NoSession, FALSE) EXCEPT
                   !.query = query,
                   !.result = <<get_routing_explanation(Table(custom_keywords), query)>>]
    /\ UNCHANGED custom_keywords
    /\ RouterFrame

\* Callers name the table's three agent ids, 'coordinator' and one more,
\* add the lists ['dorm'], ['Job'] and ['cost', 'dorm'], and route and ask
\* an explanation for 'Dorm Cost', 'hello' and 'dorm job'.
NextKeywords ==
    LET AgentIds == {"financial_aid", "course_difficulty", "career_counselor",
                     "coordinator", "advisor"}
        KeywordLists == { << <<"d","o","r","m">> >>, << <<"J","o","b">> >>,
                          << <<"c","o","s","t">>, <<"d","o","r","m">> >> }
        KwQueries == { <<"D","o","r","m"," ","C","o","s","t">>, <<"h","e","l","l","o">>,
                       <<"d","o","r","m"," ","j","o","b">> }
    IN \/ \E agent_id \in AgentIds, keywords \in KeywordLists :
             AddCustomKeywords(agent_id, keywords)
       \/ \E query \in KwQueries : RouteNow(query)
       \/ \E query \in KwQueries : Explain(query)

SpecKeywords == InitKeywords /\ [][NextKeywords]_vars

\* C21: for every query and every state of the keyword table, also after
\* keywords were added at run time, the explanation names the agent that
\* route_query returns, and the scores it reports are the scores route_query
\* computes: the selected agent has the greatest reported score, or every
\* reported score is zero and the selected agent is 'coordinator'.
C21_ExplainAgreesWithRoute ==
    last.op = "explain" =>
        LET e == last.result[1]
            table == Table(custom_keywords)
            query_lower == Lower(last.query)
        IN /\ e.selected_agent = route_query_table(table, last.query)
           /\ \A i \in 1..Len(table) :
                 /\ e.agent_scores[i].agent_id = table[i].agent_id
                 /\ e.agent_scores[i].score = Score(table[i].keywords, query_lower)
           /\ \/ \E i \in 1..Len(table) :
                    /\ e.agent_scores[i].agent_id = e.selected_agent
                    /\ e.agent_scores[i].score > 0
                    /\ \A j \in 1..Len(table) :
                          e.agent_scores[j].score <= e.agent_scores[i].score
              \/ /\ \A i \in 1..Len(table) : e.agent_scores[i].score = 0
                 /\ e.selected_agent = "coordinator"

\* an explanation of a query with capitals in which an added keyword counted
C21_Witness ==
    /\ last.op = "explain"
    /\ last.query = <<"D","o","r","m"," ","C","o","s","t">>
    /\ \E i \in 1..Len(agent_keywords) :
          /\ custom_keywords[i] # <<>>
          /\ last.result[1].selected_agent = agent_keywords[i].agent_id
          /\ last.result[1].agent_scores[i].score >
                Score(agent_keywords[i].keywords, Lower(last.query))

(***************************************************************************)
(* The router on queries made of one agent's own keywords                  *)
(***************************************************************************)
\* most keywords of one agent in a query
MaxOwnWords == 2

\* a query arrives that consists of one to MaxOwnWords keywords of a single
\* table entry, separated by blanks; agent_id names the entry
InitOwn ==
    LET RECURSIVE OwnTexts(_, _)
        OwnTexts(keywords, n) ==
            IF n = 1 THEN {keywords[i] : i \in 1..Len(keywords)}
            ELSE {t \o <<" ">> \o keywords[i] :
                     t \in OwnTexts(keywords, n - 1), i \in 1..Len(keywords)}
    IN /\ sessions = <<>>
       /\ heap = <<>>
       /\ db = <<>>
       /\ persistent = FALSE
       /\ disk_ok = TRUE
       /\ failures = "none"
       /\ clock = 0
       /\ nextId = 1
       /\ api_key_ok = FALSE
       /\ custom_keywords = NoCustom
       /\ breaker = openai_api
       /\ agent_manager = FALSE
       /\ threads = <<>>
       /\ \E i \in 1..Len(agent_keywords), n \in 1..MaxOwnWords :
             \E query \in OwnTexts(agent_keywords[i].keywords, n) :
                last = [Call("query", NoSession, FALSE) EXCEPT
                           !.query = query, !.agent_id = agent_keywords[i].agent_id]
       /\ log = <<>>

SpecOwn == InitOwn /\ [][RouteQuery]_vars

\* C22: a query built only from keywords of one specialist's own set is
\* routed to that specialist, although keywords of other specialists may
\* occur as substrings of its keywords.
C22_OwnKeywordsRouteHome ==
    (last.op = "route" /\ last.agent_id # "") => last.ret = <<last.agent_id>>

\* C23: for every identifier of the closed set {financial_aid,
\* career_counselor, course_difficulty, coordinator}, adding keywords at run
\* time extends that specialist's trigger set and only that one's, so that a
\* later query containing an added keyword counts toward its score.
C23_AddExtendsClosedSet ==
    [][ (/\ last'.op = "add_keywords"
         /\ last'.agent_id \in {"financial_aid", "career_counselor",
                                "course_difficulty", "coordinator"})
        => \E i \in 1..Len(Table(custom_keywords')) :
              /\ Table(custom_keywords')[i].agent_id = last'.agent_id
              /\ Table(custom_keywords')[i].keywords
                    = Table(custom_keywords)[i].keywords \o last'.keywords
              /\ \A j \in 1..Len(Table(custom_keywords')) :
                    j # i => Table(custom_keywords')[j] = Table(custom_keywords)[j]
      ]_vars

\* C24: adding keywords to an identifier the table does not know leaves
\* the whole table unchanged, so that route_query answers every query as
\* before, and the failure is reported (a warning is logged) rather than
\* swallowed silently.
C24_UnknownAgentIsReported ==
    [][ (/\ last'.op = "add_keywords"
         /\ \A i \in 1..Len(agent_keywords) :
               agent_keywords[i].agent_id # last'.agent_id)
        => /\ custom_keywords' = custom_keywords
           /\ \A query \in {<<"d","o","r","m">>, <<"D","o","r","m"," ","C","o","s","t">>,
                            <<"d","o","r","m"," ","j","o","b">>} :
                 route_query_table(Table(custom_keywords'), query)
                    = route_query_table(Table(custom_keywords), query)
           /\ last'.warned
      ]_vars

\* keywords were added to an unknown identifier after the table had been
\* extended for a known one
C24_Witness ==
    /\ last.op = "add_keywords"
    /\ last.agent_id = "advisor"
    /\ last.keywords # <<>>
    /\ last.warned
    /\ custom_keywords # NoCustom

(***************************************************************************)
(* _build_context_aware_query applied to a query and a history             *)
(***************************************************************************)
\* most messages of a history of short messages
MaxHistory == 7
\* most messages of a history that may hold the other messages
MaxShort == 2

\* A query and a history arrive.  The histories of up to MaxHistory
\* messages are made of a user message, an assistant message and a message
\* with another role; those of up to MaxShort messages may also hold a user
\* message with empty content, an assistant message of 201 characters and
\* an assistant message without agent_used.  The queries are
\* 'What about UCSD?', 'and then' and 'UCLA cost'.
InitContext ==
    LET Core == { [role |-> "user", content |-> <<"c","o","s","t"," ","a","t"," ","U","C","L","A">>],
                  [role |-> "assistant", content |-> <<"o","k">>,
                   agent_used |-> "course_difficulty"],
                  [role |-> "system", content |-> <<"n","o","t","e">>] }
        Other == { [role |-> "user", content |-> <<>>],
                   [role |-> "assistant", content |-> [i \in 1..201 |-> "x"],
                    agent_used |-> "coordinator"],
                   [role |-> "assistant", content |-> <<"h","i">>] }
        RECURSIVE Seqs(_, _)
        Seqs(msgs, n) ==
            IF n = 0 THEN {<<>>}
            ELSE {<<>>} \cup {Append(h, msg) : h \in Seqs(msgs, n - 1), msg \in msgs}
    IN /\ sessions = <<>>
       /\ heap = <<>>
       /\ db = <<>>
       /\ persistent = FALSE
       /\ disk_ok = TRUE
       /\ failures = "none"
       /\ clock = 0
       /\ nextId = 1
       /\ api_key_ok = TRUE
       /\ custom_keywords = NoCustom
       /\ breaker = openai_api
       /\ agent_manager = TRUE
       /\ threads = <<>>
       /\ \E query \in { <<"W","h","a","t"," ","a","b","o","u","t"," ","U","C","S","D","?">>,
                         <<"a","n","d"," ","t","h","e","n">>, <<"U","C","L","A"," ","c","o","s","t">> },
             history \in Seqs(Core, MaxHistory) \cup Seqs(Core \cup Other, MaxShort) :
                last = [Call("context", NoSession, FALSE) EXCEPT
                           !.query = query, !.history = history]
       /\ log = <<>>

\* self._build_context_aware_query(student_query, conversation_history):
\* ret holds the text returned
BuildContext ==
    /\ last.op = "context"
    /\ last' = [last EXCEPT !.op = "built",
                   !.ret = <<_build_context_aware_query(last.query, last.history)>>]
    /\ UNCHANGED <<sessions, heap, db, persistent, disk_ok, failures, clock, nextId,
                   api_key_ok, custom_keywords, breaker, agent_manager, threads, log>>

SpecContext == InitContext /\ [][BuildContext]_vars

\* text ends with suffix
EndsWith(text, suffix) ==
    /\ Len(suffix) <= Len(text)
    /\ SubSeq(text, Len(text) - Len(suffix) + 1, Len(text)) = suffix

\* a message of the history has role 'user'
HasUserMessage(history) ==
    \E i \in 1..Len(history) : "role" \in DOMAIN history[i] /\ history[i].role = "user"

\* C25: for a history of fewer than two entries (the empty one included)
\* the query is returned unchanged, even if it matches the follow-up pattern.
C25_ShortHistoryUnchanged ==
    (last.op = "built" /\ Len(last.history) < 2) => last.ret = <<last.query>>

\* a follow-up question about another school after a single user message
C25_Witness ==
    /\ last.op = "built"
    /\ Len(last.history) = 1
    /\ last.history[1].role = "user"
    /\ last.history[1].content # <<>>
    /\ IsFollowUp(Lower(last.query))
    /\ last.ret = <<last.query>>

\* C26: for a history of two entries or more the 'different school' template
\* is emitted exactly when the lower-cased query starts with 'what about',
\* 'how about' or 'and', contains a school token, and the history holds a
\* prior user message, whatever its content; the text emitted then contains
\* the prior context lines and the current question.
C26_DifferentSchoolTemplate ==
    (last.op = "built" /\ Len(last.history) >= 2) =>
        LET text == last.ret[1]
            special == EndsWith(text, different_school_instruction)
        IN /\ special <=> (IsFollowUp(Lower(last.query)) /\ HasUserMessage(last.history))
           /\ special =>
                 /\ Contains(text, <<"C","u","r","r","e","n","t"," ","q","u","e","s","t","i","o","n",":"," ">> \o last.query)
                 /\ \A i \in 1..Len(recent_context(last.history)) :
                       Contains(text, recent_context(last.history)[i])

\* C27: for a history of two entries or more where the follow-up heuristic
\* does not apply, the generic template is emitted if at least one of the
\* inspected entries has role user or assistant, and the query is returned
\* unchanged if none of them has a recognized role.
C27_GenericTemplate ==
    (/\ last.op = "built"
     /\ Len(last.history) >= 2
     /\ ~(IsFollowUp(Lower(last.query)) /\ HasUserMessage(last.history))) =>
        IF \E i \in 1..Len(Last6(last.history)) :
              /\ "role" \in DOMAIN Last6(last.history)[i]
              /\ Last6(last.history)[i].role \in {"user", "assistant"}
        THEN /\ EndsWith(last.ret[1], generic_instruction)
             /\ Contains(last.ret[1], <<"C","u","r","r","e","n","t"," ","q","u","e","s","t","i","o","n",":"," ">> \o last.query)
        ELSE last.ret = <<last.query>>

\* a follow-up question about another school after messages none of which
\* has a recognized role
C27_Witness ==
    /\ last.op = "built"
    /\ Len(last.history) >= 2
    /\ \A i \in 1..Len(last.history) : last.history[i].role = "system"
    /\ IsFollowUp(Lower(last.query))
    /\ last.ret = <<last.query>>

\* the context lines as the claim C28 words them: the display names are
\* those of agents/manager.py
DisplayLines(history) ==
    LET DisplayName(msg) ==
            IF "agent_used" \notin DOMAIN msg THEN <<"C","o","u","n","s","e","l","o","r">>
            ELSE CASE msg.agent_used = "financial_aid" -> <<"F","i","n","a","n","c","i","a","l"," ","A","i","d"," ","S","p","e","c","i","a","l","i","s","t">>
                   [] msg.agent_used = "career_counselor" -> <<"C","a","r","e","e","r"," ","C","o","u","n","s","e","l","o","r">>
                   [] msg.agent_used = "course_difficulty" -> <<"A","c","a","d","e","m","i","c"," ","A","d","v","i","s","o","r">>
                   [] OTHER -> <<"T","r","a","n","s","f","e","r"," ","C","o","o","r","d","i","n","a","t","o","r">>
        Line(msg) ==
            IF msg.role = "user" THEN << <<"S","t","u","d","e","n","t"," ","p","r","e","v","i","o","u","s","l","y"," ","a","s","k","e","d",":"," ">> \o msg.content >>
            ELSE IF msg.role = "assistant"
            THEN << DisplayName(msg) \o <<" ","r","e","s","p","o","n","d","e","d",":"," ">>
                    \o SubSeq(msg.content, 1,
                              IF Len(msg.content) > 200 THEN 200 ELSE Len(msg.content))
                    \o <<".",".",".">> >>
            ELSE <<>>
        RECURSIVE Lines(_)
        Lines(msgs) == IF msgs = <<>> THEN <<>> ELSE Line(Head(msgs)) \o Lines(Tail(msgs))
    IN Lines(Last6(history))

\* C28: the context lines come from the last six entries only, one line per
\* user or assistant entry in the order of the history; an assistant line
\* names the display name of the specialist that produced it (Financial Aid
\* Specialist, Career Counselor, Academic Advisor, Transfer Coordinator)
\* followed by at most the first 200 characters of its content.
C28_ContextLines ==
    (last.op = "built" /\ Len(last.history) >= 2 /\ last.ret # <<last.query>>) =>
        \E instruction \in {generic_instruction, different_school_instruction} :
            last.ret[1] = ContextPrompt(DisplayLines(last.history), last.query, instruction)

(***************************************************************************)
(* The store's timestamps: one session, read and changed as time passes    *)
(***************************************************************************)
\* update_session is given a last_updated of its own or an empty history
NextStamp ==
    LET StampKwargs == { << [key |-> "last_updated", value |-> 0] >>,
                         << [key |-> "conversation_history", value |-> <<>>] >> }
    IN \/ nextId = 1 /\ CreateSession("test_user")
       \/ \E sid \in SessionIds : GetSession(sid)
       \/ \E sid \in SessionIds, kwargs \in StampKwargs : UpdateSession(sid, kwargs)
       \/ /\ TotalHeld < MaxLen
          /\ \E sid \in SessionIds : AppendMessage(sid, DurMessage)
       \/ \E sid \in SessionIds : History(sid, <<>>)
       \/ Restart
       \/ Tick

SpecStamp == Init /\ [][NextStamp]_vars

C30_FallbackFromRawQuery ==
    (last.op = "process" /\ last.result # <<>> /\ ~last.answered) =>
        /\ last.result[1].agent_used = route_query(last.query)
        /\ last.result[1].response
              = get_fallback_response(last.query, route_query(last.query))

\* the generator was called with a prompt built from an earlier exchange
\* and failed
C30_Witness ==
    /\ last.op = "process"
    /\ last.result # <<>>
    /\ api_key_ok /\ agent_manager
    /\ last.calls > 0
    /\ ~last.answered
    /\ last.result[1].metadata.context_messages >= 2
    /\ last.query = QJob

(***************************************************************************)
(* utils/error_handling.py: the wrapper with_retry puts around a function  *)
(***************************************************************************)
\* most attempts a RetryConfig allows here
MaxAttempts == 3

\* with_retry's wrapper that raises the exception of the first invocation
retry_wrapper_first(attempts_allowed, outcomes) ==
    LET strategy(error) ==
            IF error \in {"ConnectionError", "TimeoutError"} THEN "retry"
            ELSE IF error = "CircuitBreakerOpenError" THEN "fallback"
            ELSE "retry"
        RECURSIVE loop(_)
        loop(attempt) ==
            IF attempt >= attempts_allowed
            THEN [invocations |-> attempt, raised |-> FALSE, value |-> <<>>]
            ELSE IF outcomes[attempt + 1].kind = "return"
            THEN [invocations |-> attempt + 1, raised |-> FALSE,
                  value |-> <<outcomes[attempt + 1]>>]
            ELSE IF attempt < attempts_allowed - 1
                    /\ strategy(outcomes[attempt + 1].error) = "retry"
            THEN loop(attempt + 1)
            ELSE [invocations |-> attempt + 1, raised |-> TRUE,
                  value |-> <<outcomes[1]>>]
    IN loop(0)

\* The wrapper of with_retry(RetryConfig(max_attempts = attempts_allowed)) around a function
\* whose successive invocations have the given outcomes: the number of
\* invocations made, whether the wrapper raised, and what it returned or
\* raised.  strategy is _determine_recovery_strategy with no error pattern
\* registered; the delay between attempts is a time.sleep of at most
\* max_delay seconds.
retry_wrapper(attempts_allowed, outcomes) ==
    LET strategy(error) ==
            IF error \in {"ConnectionError", "TimeoutError"} THEN "retry"
            ELSE IF error = "CircuitBreakerOpenError" THEN "fallback"
            ELSE "retry"
        RECURSIVE loop(_)
        loop(attempt) ==
            IF attempt >= attempts_allowed
            THEN [invocations |-> attempt, raised |-> FALSE, value |-> <<>>]
            ELSE IF outcomes[attempt + 1].kind = "return"
            THEN [invocations |-> attempt + 1, raised |-> FALSE,
                  value |-> <<outcomes[attempt + 1]>>]
            ELSE IF attempt < attempts_allowed - 1
                    /\ strategy(outcomes[attempt + 1].error) = "retry"
            THEN loop(attempt + 1)
            ELSE [invocations |-> attempt + 1, raised |-> TRUE,
                  value |-> <<outcomes[attempt + 1]>>]
    IN loop(0)

\* A wrapped function is about to be called: runs holds, for each of the
\* invocations the wrapper may make, what that invocation
\* would do (return, or raise an exception of the type named).
InitRetry ==
    /\ sessions = <<>>
    /\ heap = <<>>
    /\ db = <<>>
    /\ persistent = FALSE
    /\ disk_ok = TRUE
    /\ failures = "none"
    /\ clock = 0
    /\ nextId = 1
    /\ api_key_ok = FALSE
    /\ custom_keywords = NoCustom
    /\ breaker = openai_api
    /\ agent_manager = FALSE
    /\ threads = <<>>
    /\ \E attempts_allowed \in 1..MaxAttempts :
          \E errors \in [1..attempts_allowed ->
                           {"", "ConnectionError", "ValueError", "CircuitBreakerOpenError"}] :
             last = [Call("wrapped", NoSession, FALSE) EXCEPT
                        !.runs = [k \in 1..attempts_allowed |->
                                    [kind |-> IF errors[k] = "" THEN "return" ELSE "raise",
                                     error |-> errors[k], invocation |-> k]]]
    /\ log = <<>>

\* the wrapped function is called once
RetryCall ==
    /\ last.op = "wrapped"
    /\ \E r \in {retry_wrapper(Len(last.runs), last.runs)} :
          last' = [last EXCEPT !.op = "retried", !.calls = r.invocations,
                      !.raised = r.raised, !.ret = r.value]
    /\ UNCHANGED <<sessions, heap, db, persistent, disk_ok, failures, clock, nextId,
                   api_key_ok, custom_keywords, breaker, agent_manager, threads, log>>

SpecRetry == InitRetry /\ [][RetryCall]_vars

\* C31: a function wrapped by with_retry(RetryConfig(max_attempts = n)),
\* n >= 1, is invoked at most n times per call; the wrapper returns the
\* result of the first successful invocation without invoking the function
\* again, and if all n invocations fail it raises the exception of the
\* last invocation.
C31_RetryIsBounded ==
    last.op = "retried" =>
        /\ last.calls \in 1..Len(last.runs)
        /\ \A k \in 1..(last.calls - 1) : last.runs[k].kind = "raise"
        /\ last.ret = <<last.runs[last.calls]>>
        /\ last.raised <=> last.runs[last.calls].kind = "raise"
        /\ (\A k \in 1..Len(last.runs) :
               last.runs[k].kind = "raise" /\ last.runs[k].error # "CircuitBreakerOpenError")
           => (last.calls = Len(last.runs) /\ last.raised)

\* every one of at least two invocations failed and the last exception was raised
C31_Witness ==
    /\ last.op = "retried"
    /\ Len(last.runs) >= 2
    /\ last.calls = Len(last.runs)
    /\ last.raised
    /\ last.ret = <<last.runs[Len(last.runs)]>>
    /\ last.runs[1].error # last.runs[Len(last.runs)].error

(***************************************************************************)
(* A circuit breaker on its own: calls through it and the passing of time  *)
(***************************************************************************)
\* thresholds a CircuitBreakerConfig may hold here
MaxThreshold == 2
\* most calls made through the breaker
MaxCalls == 5

\* A breaker as register_circuit_breaker creates it, with thresholds of at
\* least one and a recovery timeout the clock can reach.  log is here the
\* calls made through the breaker, oldest first.
InitBreaker ==
    /\ sessions = <<>>
    /\ heap = <<>>
    /\ db = <<>>
    /\ persistent = FALSE
    /\ disk_ok = TRUE
    /\ failures = "none"
    /\ clock = 0
    /\ nextId = 1
    /\ api_key_ok = FALSE
    /\ custom_keywords = NoCustom
    /\ \E failure_threshold \in 1..MaxThreshold, success_threshold \in 1..MaxThreshold,
          recovery_timeout \in 1..MaxClock :
          breaker = CircuitBreaker(failure_threshold, recovery_timeout, success_threshold)
    /\ agent_manager = FALSE
    /\ threads = <<>>
    /\ last = Call("init", NoSession, FALSE)
    /\ log = <<>>

\* breaker.call(func) at the present time, func behaving as outcome says
BreakerCall(outcome) ==
    /\ Len(log) < MaxCalls
    /\ \E r \in {call(breaker, outcome, clock)} :
          /\ breaker' = r.breaker
          /\ last' = [Call("call", NoSession, FALSE) EXCEPT
                         !.raised = (r.error # ""),
                         !.calls = IF r.invoked THEN 1 ELSE 0,
                         !.ret = <<r.error>>]
          /\ log' = Append(log, [state |-> breaker.state, outcome |-> outcome,
                                 invoked |-> r.invoked, at |-> clock])
    /\ UNCHANGED <<sessions, heap, db, persistent, disk_ok, failures, clock, nextId,
                   api_key_ok, custom_keywords, agent_manager, threads>>

SpecBreaker ==
    InitBreaker /\ [][(\E outcome \in {"return", "slow", "raise"} : BreakerCall(outcome))
                      \/ Tick]_vars

\* C33: a closed breaker moves to open exactly when failure_threshold calls
\* in a row have failed, a call failing when the function raises or when it
\* returns after more than the timeout (a TimeoutError is raised and the
\* result discarded); a success while closed resets the failure count to 0.
C33_ClosedOpensAtThreshold ==
    [][ (last'.op = "call" /\ breaker.state = "closed") =>
          LET RECURSIVE streak(_)
              streak(k) == IF k = 0 \/ log'[k].outcome = "return" \/ ~log'[k].invoked
                              \/ log'[k].state # "closed"
                           THEN 0 ELSE 1 + streak(k - 1)
              outcome == log'[Len(log')].outcome
          IN /\ last'.calls = 1
             /\ last'.raised <=> outcome # "return"
             /\ outcome = "slow" => last'.ret = <<"TimeoutError">>
             /\ breaker'.state \in {"closed", "open"}
             /\ breaker'.state = "open" <=> streak(Len(log')) >= breaker.failure_threshold
             /\ outcome = "return" => breaker'.failure_count = 0 ]_vars

\* a breaker with a threshold of two has opened on a slow call after a
\* success had reset its count
C33_Witness ==
    /\ last.op = "call"
    /\ breaker.state = "open"
    /\ breaker.failure_threshold = 2
    /\ Len(log) >= 4
    /\ log[Len(log)].state = "closed"
    /\ log[Len(log)].outcome = "slow"
    /\ log[Len(log) - 2].outcome = "return"
    /\ log[Len(log) - 3].outcome = "raise"

\* C34: while the breaker is open and less than recovery_timeout has passed
\* since the last failure, call raises CircuitBreakerOpenError without
\* invoking the function and leaves the breaker as it was; the first call at
\* or after the recovery timeout makes it half-open with success_count 0
\* and invokes the function.
C34_OpenRejectsUntilTimeout ==
    [][ (last'.op = "call" /\ breaker.state = "open") =>
          /\ breaker.last_failure_time # <<>>
          /\ IF clock - breaker.last_failure_time[1] < breaker.recovery_timeout
             THEN /\ last'.ret = <<"CircuitBreakerOpenError">>
                  /\ last'.raised
                  /\ last'.calls = 0
                  /\ breaker' = breaker
             ELSE /\ last'.calls = 1
                  /\ last'.ret # <<"CircuitBreakerOpenError">>
                  /\ IF log'[Len(log')].outcome = "return"
                     THEN /\ breaker'.success_count = 1
                          /\ breaker'.state
                               = IF breaker.success_threshold = 1 THEN "closed" ELSE "half_open"
                     ELSE /\ breaker'.success_count = 0
                          /\ breaker'.state = "open" ]_vars

\* an open breaker rejected a call, and a later call exactly recovery_timeout
\* after the failure was let through and left it half-open
C34_Witness ==
    /\ last.op = "call"
    /\ last.calls = 1
    /\ breaker.state = "half_open"
    /\ breaker.success_count = 1
    /\ log[Len(log)].state = "open"
    /\ log[Len(log)].at - breaker.last_failure_time[1] = breaker.recovery_timeout
    /\ \E k \in 1..Len(log) : ~log[k].invoked

\* C35: a half-open breaker returns to closed, its failure count reset to
\* 0, exactly after success_threshold successful calls with no failure in
\* between; a failed call while half-open opens it at once and restarts
\* the recovery timeout.
C35_HalfOpenClosesOrReopens ==
    [][ (last'.op = "call" /\ last'.calls = 1 /\ breaker.state \in {"open", "half_open"}) =>
          LET RECURSIVE successes(_)
              successes(k) == IF k = 0 \/ log'[k].outcome # "return" \/ ~log'[k].invoked
                                 \/ log'[k].state = "closed"
                              THEN 0 ELSE 1 + successes(k - 1)
              outcome == log'[Len(log')].outcome
          IN IF outcome = "return"
             THEN /\ breaker'.state \in {"half_open", "closed"}
                  /\ breaker'.state = "closed"
                        <=> successes(Len(log')) = breaker.success_threshold
                  /\ breaker'.state = "closed" => breaker'.failure_count = 0
             ELSE /\ breaker'.state = "open"
                  /\ breaker'.last_failure_time = <<clock>> ]_vars

\* a breaker that was half-open between two calls failed the second one and
\* is open again, the timeout counted from that failure
C35_Witness ==
    /\ last.op = "call"
    /\ breaker.state = "open"
    /\ Len(log) >= 2
    /\ log[Len(log)].state = "half_open"
    /\ log[Len(log)].outcome # "return"
    /\ breaker.last_failure_time = <<log[Len(log)].at>>
    /\ log[Len(log)].at > 0

\* C36: between calls a closed breaker has failure_count below
\* failure_threshold, an open or half-open one has failure_count at or
\* above it and a last failure time, and a half-open one has success_count
\* below success_threshold.
C36_BreakerInvariant ==
    /\ breaker.state = "closed" => breaker.failure_count < breaker.failure_threshold
    /\ breaker.state \in {"open", "half_open"} =>
          /\ breaker.failure_count >= breaker.failure_threshold
          /\ breaker.last_failure_time # <<>>
    /\ breaker.state = "half_open" => breaker.success_count < breaker.success_threshold

\* a breaker that opened at a threshold of two is half-open with one
\* success counted
C36_Witness ==
    /\ breaker.state = "half_open"
    /\ breaker.success_count = 1
    /\ breaker.failure_threshold = 2
    /\ breaker.failure_count = 2
    /\ Len(log) >= 3

(***************************************************************************)
(* process_query, the circuit breaker and the session's record             *)
(***************************************************************************)
\* C32: the breaker registered as 'openai_api' guards the generator: after
\* three process() calls in a row whose generator call failed, the next
\* process() call does not invoke the generator while the recovery timeout
\* has not passed.
C32_BreakerGuardsGenerator ==
    LET h == StoredHistory(1)
        n == Len(h)
    IN (/\ last.op = "process"
        /\ api_key_ok /\ agent_manager
        /\ n >= 8
        /\ \A k \in {n - 6, n - 4, n - 2} : h[k].content = FallbackFor[QAid])
       => last.calls = 0

\* C37: after any sequence of process() calls on an existing session, with
\* any mix of generator successes and failures, the session's history has
\* even length, its roles alternate user, assistant, and each assistant
\* entry's agent_used is the route of the user entry before it.
C37_HistoryIsExchanges ==
    \A sid \in SessionIds :
       Known(SM, sid) =>
          LET h == StoredHistory(sid)
          IN /\ Len(h) % 2 = 0
             /\ \A k \in 1..Len(h) :
                   IF k % 2 = 1
                   THEN h[k].role = "user"
                   ELSE /\ h[k].role = "assistant"
                        /\ h[k].agent_used = route_query(h[k - 1].content)

\* a session was asked twice, once answered by the generator and once by
\* the fallback, the second time about a job
C37_Witness ==
    /\ last.op = "process"
    /\ last.known
    /\ last.query = QJob
    /\ Known(SM, last.result[1].session_id)
    /\ LET h == StoredHistory(last.result[1].session_id)
       IN /\ Len(h) = 4
          /\ h[4].agent_used = "career_counselor"
          /\ \E k \in {2, 4} : h[k].content = <<"o","k">>
          /\ \E k \in {2, 4} : h[k].content = FallbackFor[h[k - 1].content]

\* C38: after a process() call answered under a specialist, the specialist
\* is in the session's active agents, which hold exactly the specialists
\* that produced an assistant message of the session.
C38_ActiveAgentsRecorded ==
    (last.op = "process" /\ last.known /\ Known(SM, last.result[1].session_id)) =>
        LET s == Stored(last.result[1].session_id)
        IN /\ \E i \in 1..Len(s.active_agents) :
                 s.active_agents[i] = last.result[1].agent_used
           /\ {s.active_agents[i] : i \in 1..Len(s.active_agents)}
                 = {s.conversation_history[k].agent_used :
                      k \in {j \in 1..Len(s.conversation_history) :
                               s.conversation_history[j].role = "assistant"}}

\* C39: the keywords of a specialist form a set: adding keywords the
\* specialist already has changes no score and no route of any query.
C39_AddingTwiceChangesNothing ==
    [][ (/\ last'.op = "add_keywords"
         /\ \E i \in 1..Len(agent_keywords) :
               /\ agent_keywords[i].agent_id = last'.agent_id
               /\ \A k \in 1..Len(last'.keywords) :
                     \E j \in 1..Len(Table(custom_keywords)[i].keywords) :
                        Table(custom_keywords)[i].keywords[j] = last'.keywords[k])
        => \A query \in {<<"D","o","r","m"," ","C","o","s","t">>, <<"h","e","l","l","o">>,
                         <<"d","o","r","m"," ","j","o","b">>} :
              /\ route_query_table(Table(custom_keywords'), query)
                    = route_query_table(Table(custom_keywords), query)
              /\ \A i \in 1..Len(agent_keywords) :
                    get_routing_explanation(Table(custom_keywords'), query).agent_scores[i].score
                       = get_routing_explanation(Table(custom_keywords), query).agent_scores[i].score
      ]_vars

====
